---- MODULE Spec2Model ----
(***************************************************************************)
(* Model of portacode's device-side automation runtime                     *)
(* (portacode/connection/handlers/automation_v2_handlers.py,               *)
(* class _AutomationRuntimeV2).                                            *)
(*                                                                         *)
(* Atomicity.  The runtime runs on one asyncio event loop, so a coroutine  *)
(* runs without interruption between two suspensions.  `async with         *)
(* self._lock` and `await self._notify_change()` do not suspend when the   *)
(* lock they take is free, and no coroutine of this class suspends while   *)
(* it holds self._lock or the condition's lock; both are therefore free    *)
(* at every suspension and every critical section is one atomic step.      *)
(* The suspensions of the runner are: the start of the coroutine after     *)
(* create_task, `await create_subprocess_shell`, `await process.wait()`,   *)
(* the stream/event awaits after the process ended, and the awaits of      *)
(* _run_wait_for_step.  A waiter suspends in Condition.wait().             *)
(*                                                                         *)
(* Left out: the root document's updated_at, default_timeout_seconds and   *)
(* the text of commands and outputs (a step is its kind, its return code   *)
(* and whether it timed out).  The branch of _run_task for a stored        *)
(* `instructions` that is not a list (lines 306-313) is not modelled:      *)
(* start() refuses such input and the state file is written by this class  *)
(* only.                                                                   *)
(***************************************************************************)
EXTENDS Integers, Sequences, FiniteSets, TLC

(* ---------------------------------------------------------------- bounds *)

\* accepted start() and cancel() calls per behaviour
MaxOps == 3

\* process restarts (re-construction of the runtime from the state file)
MaxRestarts == 1

\* largest since_seq a caller passes to wait_for_change
MaxSince == 1

\* distinct task ids the clients use
MaxTasks == 2

\* accepted start() and cancel() calls in the specification that records the events
EventOps == 2

\* terminal_exec_output events the periodic flusher sends during one shell step
MaxOutputs == 1

\* the same two bounds for the specification that explores three tasks
WideOps == 4

WideTasks == 3

\* the callers that may block in wait_for_change
WaiterIds == {"w1"}

\* instruction lists the clients send: each step is classified by
\* _extract_step_command / _extract_step_wait_for as shell, wait_for or noop
InstructionLists == {<<"noop", "shell">>, <<"shell", "wait_for">>}

\* an `instructions` argument that is not a list
NotAList == <<"not_a_list">>

None == "None"

NoTask == 0

Terminal == {"success", "failed", "cancelled"}

NonTerminal == {"running", "pending"}

(* ----------------------------------------------------------------- state *)

VARIABLES
    state,                    \* self._state: [active_task_id, tasks]
    disk,                     \* the file at self._state_path: [exists, doc]
    runners,                  \* the _run_task coroutines created since construction
    runner_task,              \* self._runner_task: index into runners, 0 for None
    current_process,          \* self._current_process: index of the runner owning it, 0 for None
    current_process_task_id,  \* self._current_process_task_id
    waiters,                  \* callers of wait_for_change
    now,                      \* time.time(), as a logical clock
    ops,                      \* accepted start() and cancel() calls
    restarts,                 \* constructions from the state file performed
    bootIndex,                \* current_step_index of each task when the runtime was constructed
    seen,                     \* the snapshot a client took last: its task and state_seq
    lastOp,                   \* the step just taken
    events,                   \* the payloads handed to self._event_sender, in order
    probe,                    \* one run of _run_wait_for_step and what was recorded for it
    conn,                     \* the ConnectionManager, its gateway and the stop signal
    router,                   \* the commands handled, the frames sent for them, the exit status
    forwarding,               \* the forwarding rules file, the proxy config, DNS, containers, requests
    container,                \* a container's shell hook file and /etc/environment, as texts
    storage,                  \* the files the agent persists, the write in progress, what was observed
    provision,                \* one create_proxmox_container request: its position, events, results
    node,                     \* the Proxmox node: its containers and the handlers starting them
    tunnel                    \* the files, service and recorded state of the Cloudflare tunnel

vars == <<state, disk, runners, runner_task, current_process, current_process_task_id,
          waiters, now, ops, restarts, bootIndex, seen, lastOp, events, probe, conn, router,
          forwarding, container, storage, provision, node, tunnel>>

\* the state of the Proxmox and tunnel handlers
infraVars == <<provision, node, tunnel>>

\* the state of the command handlers outside the automation runtime and the connection
hostVars == <<router, forwarding, container, storage, infraVars>>

\* the variables the automation runtime's own operations leave alone
otherVars == <<events, probe, conn, hostVars>>

EmptyState == [active_task_id |-> NoTask, tasks |-> << >>]

IdleWaiter == [pc |-> "idle", task |-> NoTask, since |-> 0]

DoneRunner == [task |-> NoTask, pc |-> "done", step_index |-> 0, kind |-> None,
               proc |-> "none", term |-> FALSE, returncode |-> 0, timed_out |-> FALSE]

NewRunner(t) == [DoneRunner EXCEPT !.task = t, !.pc = "ready"]

Op(name, t, res) == [op |-> name, task |-> t, res |-> res, ins |-> NotAList, rep |-> FALSE,
                     term |-> 0, since |-> 0]

\* a step of a runner or of a subprocess
Internal == Op("internal", NoTask, "ok")

HasTask(st, t) == t \in DOMAIN st.tasks

\* task ids are opaque to the runtime: the clients use them in the order 1, 2, ..., so an
\* id is a stored one or the first unused one (which also stands for any unknown id)
Usable(st, t) == t <= Cardinality(DOMAIN st.tasks) + 1

StatusOf(st, t) == IF HasTask(st, t) THEN st.tasks[t].status ELSE None

SetTask(st, t, task) == [st EXCEPT !.tasks = (t :> task) @@ st.tasks]

\* _run_wait_for_step before it is called
IdleProbe == [pc |-> "idle", target |-> << >>, deadline |-> 0, clock |-> 0, attempts |-> 0,
              requests |-> 0, outputs |-> 0, last_error |-> None, returncode |-> 0,
              timed_out |-> FALSE]

\* the exit status of a process that has not exited
Running == -1

\* ConnectionManager.__init__ (client.py lines 31-40) in a process that has just started
NewConnection == [pc |-> "created", main |-> "created", stop_event |-> FALSE,
                  signalled |-> FALSE, websocket |-> "none", response |-> None,
                  rejected |-> FALSE, attempts |-> 0, dispatched |-> 0, raising |-> None,
                  exit_code |-> Running]

\* the worker threads that run the forwarding handlers
Tids == {1, 2}

\* the container devices
Devices == {<<"7">>, <<"8">>}

\* no forwarding rules file, an empty proxy config, no DNS record, no file in a container
NoFiles == [rules |-> << >>, config |-> << >>, dns |-> {},
            containers |-> [d \in Devices |-> << >>]]

\* no exception
NoError == [kind |-> None, details |-> None]

\* no forwarding request made yet
NoUpdate ==
    [command |-> None, device_id |-> << >>, expose_ports |-> << >>, rules |-> << >>,
     from_storage |-> FALSE, stored |-> << >>, exposed_ports |-> << >>,
     before |-> NoFiles, after |-> NoFiles, error |-> NoError, fault |-> "none"]

\* a container before anything was pushed into it: the shell hook file and
\* /etc/environment are empty, no table has been injected
NewContainer ==
    [hook |-> << >>, environment |-> << >>, table |-> 0, injections |-> 0,
     previous |-> [hook |-> << >>, environment |-> << >>, table |-> 0]]

\* the paths of the persisted files and how each is written
WriteMethod ==
    [automation_state |-> "tmp_fsync_replace", forwarding_rules |-> "tmp_replace",
     proxy_config |-> "in_place", container_record |-> "in_place"]

Paths == DOMAIN WriteMethod

\* the content every file has at the start, complete and on disk
OldContent == <<"o1", "o2">>

NoWrite == [path |-> None, pc |-> "idle", old |-> << >>, new |-> << >>, tmp |-> << >>, synced |-> FALSE]

NoObservation == [kind |-> None, path |-> None, content |-> << >>, old |-> << >>, new |-> << >>]

NewStorage ==
    [files |-> [path \in Paths |-> [content |-> OldContent, replaced |-> OldContent,
                                    on_disk |-> TRUE]],
     write |-> NoWrite, writes |-> 0, last |-> NoObservation]

NoForwarding ==
    [files |-> NoFiles,
     threads |-> [t \in Tids |-> [pc |-> "idle", rules |-> << >>, from_storage |-> FALSE]],
     updates |-> 0, last |-> NoUpdate]

\* no create_proxmox_container request received yet
NoProvision ==
    [pc |-> "idle", loop |-> FALSE, steps |-> << >>, total_steps |-> 0, current_step_index |-> 1,
     offset |-> 0, attempts |-> 0, slept |-> 0, events |-> << >>, results |-> << >>,
     delays |-> << >>]

\* the worker threads that run synchronous handlers
Workers == {"w1", "w2"}

IdleWorker == [pc |-> "idle", vmid |-> 0]

\* a node without containers
NewNode == [cts |-> << >>, workers |-> [w \in Workers |-> IdleWorker]]

\* a host on which no tunnel was ever set up
NewTunnel ==
    [pc |-> "idle", tunnel_exists |-> FALSE, cert |-> FALSE, credentials |-> FALSE, user_creds |-> FALSE,
     token |-> None, config |-> None, service |-> FALSE, state |-> None, setups |-> 0,
     last |-> [source |-> None, error |-> None]]

\* no command handled yet
NewRouter == [handled |-> << >>, exit_code |-> Running]

LiveRunners(rs, t) == {r \in DOMAIN rs : rs[r].pc # "done" /\ rs[r].task = t}

\* `not self._runner_task or self._runner_task.done()`
RunnerDone == runner_task = 0 \/ runners[runner_task].pc = "done"

Init ==
    /\ state = EmptyState
    /\ disk = [exists |-> FALSE, doc |-> EmptyState]
    /\ runners = << >>
    /\ runner_task = 0
    /\ current_process = 0
    /\ current_process_task_id = NoTask
    /\ waiters = [w \in WaiterIds |-> IdleWaiter]
    /\ now = 0
    /\ ops = 0
    /\ restarts = 0
    /\ bootIndex = << >>
    /\ seen = [task |-> NoTask, seq |-> 0]
    /\ lastOp = Op("init", NoTask, "ok")
    /\ events = << >>
    /\ probe = IdleProbe
    /\ conn = NewConnection
    /\ router = NewRouter
    /\ forwarding = NoForwarding
    /\ container = NewContainer
    /\ storage = NewStorage
    /\ provision = NoProvision
    /\ node = NewNode
    /\ tunnel = NewTunnel

(* ------------------------------------------------------ _persist_state *)

\* a write that leaves the file as it is
PersistKeepsFile(st) == disk

\* the state document replaces the file (updated_at left out)
_persist_state(st) == [exists |-> TRUE, doc |-> st]

(* ------------------------------------------------------- _notify_change *)

\* a notification that resumes nobody
NotifyNone(ws) == ws

\* Condition.notify_all(): every caller suspended in Condition.wait() is resumed
_notify_change(ws) ==
    [w \in DOMAIN ws |-> IF ws[w].pc = "waiting" THEN [ws[w] EXCEPT !.pc = "woken"] ELSE ws[w]]

(* ---------------------------------------------------------------- start *)

\* the conflict check of start(): another task is the active one and is running or pending
StartConflict(st, t) ==
    /\ st.active_task_id # NoTask
    /\ st.active_task_id # t
    /\ StatusOf(st, st.active_task_id) \in NonTerminal

\* a start() that replaces the stored record's state_seq instead of incrementing it
StartExistingReset(st, t) ==
    LET existing == st.tasks[t] IN
    [active_task_id |-> IF existing.status \in NonTerminal THEN t ELSE NoTask,
     tasks |-> (t :> [existing EXCEPT !.state_seq = 1]) @@ st.tasks]

\* start() of a task id that is stored already: the state after lines 182-183
StartExisting(st, t) ==
    LET existing == st.tasks[t] IN
    [active_task_id |-> IF existing.status \in NonTerminal THEN t ELSE NoTask,
     tasks |-> (t :> [existing EXCEPT !.state_seq = @ + 1]) @@ st.tasks]

\* the task record start() creates for a new task id
NewTask(ins, ts) ==
    [status |-> "pending", instructions |-> ins, current_step_index |-> 0,
     current_step_status |-> "pending", steps |-> << >>, created_at |-> ts,
     started_at |-> 0, completed_at |-> 0, last_error |-> None,
     cancel_requested |-> FALSE, state_seq |-> 1]

StartNew(st, t, ins, ts) ==
    [active_task_id |-> t, tasks |-> (t :> NewTask(ins, ts)) @@ st.tasks]

\* a start() that resumes pending tasks only
StartSpawnsPendingOnly(status, runnerDone) == status = "pending" /\ runnerDone

\* a start() that does not look at the runner it already has
StartSpawnsAlways(status, runnerDone) == status \in NonTerminal

\* whether start() creates a runner: the task is running or pending, and no runner is live
StartSpawns(status, runnerDone) == status \in NonTerminal /\ runnerDone

Start(t, ins) ==
    /\ Usable(state, t)
    /\ IF ins = NotAList
       THEN /\ lastOp' = Op("start", NoTask, "invalid")
            /\ UNCHANGED <<state, disk, runners, runner_task, waiters, now, ops>>
       ELSE IF StartConflict(state, t)
       THEN /\ lastOp' = Op("start", t, "conflict")
            /\ UNCHANGED <<state, disk, runners, runner_task, waiters, now, ops>>
       ELSE /\ ops' = ops + 1
            /\ IF HasTask(state, t)
               THEN state' = StartExisting(state, t) /\ now' = now
               ELSE state' = StartNew(state, t, ins, now + 1) /\ now' = now + 1
            /\ disk' = _persist_state(state')
            /\ waiters' = _notify_change(waiters)
            /\ IF StartSpawns(state'.tasks[t].status, RunnerDone)
               THEN /\ runners' = Append(runners, NewRunner(t))
                    /\ runner_task' = Len(runners) + 1
               ELSE UNCHANGED <<runners, runner_task>>
            /\ lastOp' = [Op("start", t, "ok") EXCEPT
                            !.ins = ins,
                            !.rep = (lastOp.op = "start" /\ lastOp.res = "ok"
                                     /\ lastOp.task = t /\ lastOp.ins = ins)]
    /\ UNCHANGED <<current_process, current_process_task_id, restarts, bootIndex, seen>>

(* ------------------------------------------------------------ get_state *)

\* the state_seq of the snapshot get_state() returns (0 for the synthetic "unknown" record)
SnapshotSeq(st, t) == IF HasTask(st, t) THEN st.tasks[t].state_seq ELSE 0

Snapshot(st, t) == [task |-> t, seq |-> SnapshotSeq(st, t)]

get_state(t) ==
    /\ Usable(state, t)
    /\ seen' = Snapshot(state, t)
    /\ lastOp' = Op("get_state", NoTask, "ok")
    /\ UNCHANGED <<state, disk, runners, runner_task, current_process,
                   current_process_task_id, waiters, now, ops, restarts, bootIndex>>

(* --------------------------------------------------------------- cancel *)

\* a cancel() that flips the status and forgets the flag the runner reads
CancelTaskNoFlag(task, ts) ==
    IF task.status \in NonTerminal
    THEN [task EXCEPT !.status = "cancelled", !.completed_at = ts,
                      !.current_step_status = "failed", !.state_seq = @ + 1]
    ELSE [task EXCEPT !.state_seq = @ + 1]

\* a cancel() that marks the task cancelled whatever its status
CancelTaskAlways(task, ts) ==
    [task EXCEPT !.cancel_requested = TRUE, !.status = "cancelled", !.completed_at = ts,
                 !.current_step_status = "failed", !.state_seq = @ + 1]

\* lines 239-244: the task record after cancel()
CancelTask(task, ts) ==
    IF task.status \in NonTerminal
    THEN [task EXCEPT !.cancel_requested = TRUE, !.status = "cancelled",
                      !.completed_at = ts, !.current_step_status = "failed",
                      !.state_seq = @ + 1]
    ELSE [task EXCEPT !.cancel_requested = TRUE, !.state_seq = @ + 1]

\* line 250: whether cancel(t) calls process.terminate()
CancelTerminates(rs, cp, cptid, t) ==
    cp # 0 /\ rs[cp].proc = "live" /\ cptid = t

cancel(t) ==
    /\ Usable(state, t)
    /\ IF ~HasTask(state, t)
       THEN /\ lastOp' = Op("cancel", t, "unknown")
            /\ UNCHANGED <<state, disk, runners, waiters, now, seen, ops>>
       ELSE /\ ops' = ops + 1
            /\ state' = SetTask(state, t, CancelTask(state.tasks[t], now + 1))
            /\ now' = IF state.tasks[t].status \in NonTerminal THEN now + 1 ELSE now
            /\ disk' = _persist_state(state')
            /\ waiters' = _notify_change(waiters)
            /\ IF CancelTerminates(runners, current_process, current_process_task_id, t)
               THEN runners' = [runners EXCEPT ![current_process].term = TRUE]
               ELSE runners' = runners
            /\ seen' = seen
            /\ lastOp' = [Op("cancel", t, "ok") EXCEPT
                            !.term = IF CancelTerminates(runners, current_process,
                                                         current_process_task_id, t)
                                     THEN current_process ELSE 0]
    /\ UNCHANGED <<runner_task, current_process, current_process_task_id, restarts, bootIndex>>

(* ------------------------------------------------------ wait_for_change *)

\* lines 265-280: what the check under the lock decides
WaitCheck(st, t, target_seq) ==
    IF ~HasTask(st, t) THEN "unknown"
    ELSE IF st.tasks[t].state_seq > target_seq \/ st.tasks[t].status \in Terminal THEN "return"
    ELSE "wait"

\* the caller after its check: returned, or suspended in Condition.wait()
WaitOutcome(w, t, s) ==
    LET check == WaitCheck(state, t, s) IN
    IF check = "wait"
    THEN /\ waiters' = [waiters EXCEPT ![w] = [pc |-> "waiting", task |-> t, since |-> s]]
         /\ lastOp' = [Op("wait_blocked", t, "ok") EXCEPT !.since = s]
         /\ seen' = seen
    ELSE /\ waiters' = [waiters EXCEPT ![w] = IdleWaiter]
         /\ lastOp' = [Op("wait_return", t, IF check = "return" THEN "ok" ELSE "unknown") EXCEPT
                         !.since = s]
         /\ seen' = seen

wait_for_change(w, t, s) ==
    /\ Usable(state, t)
    /\ waiters[w].pc = "idle"
    /\ WaitOutcome(w, t, s)
    /\ UNCHANGED <<state, disk, runners, runner_task, current_process,
                   current_process_task_id, now, ops, restarts, bootIndex>>

\* a notified caller resumes from Condition.wait() and checks again
WaiterResume(w) ==
    /\ waiters[w].pc = "woken"
    /\ WaitOutcome(w, waiters[w].task, waiters[w].since)
    /\ UNCHANGED <<state, disk, runners, runner_task, current_process,
                   current_process_task_id, now, ops, restarts, bootIndex>>

(* ------------------------------------------------------------ _run_task *)

\* lines 286-343: the critical section at the top of the runner's loop, repeated while
\* the step is a no-op.  next: "return", or the kind of the step the runner goes on to run
RECURSIVE LoopBody(_, _, _)
LoopBody(st, t, ts) ==
    IF ~HasTask(st, t)
    THEN [state |-> st, next |-> "return", step_index |-> 0, persist |-> FALSE, notify |-> FALSE]
    ELSE
    LET task == st.tasks[t]
        i == task.current_step_index
    IN
    IF task.cancel_requested
    THEN [state |-> [active_task_id |-> NoTask,
                     tasks |-> (t :> [task EXCEPT !.status = "cancelled",
                                                  !.completed_at = IF @ = 0 THEN ts ELSE @,
                                                  !.current_step_status = "failed",
                                                  !.state_seq = @ + 1]) @@ st.tasks],
          next |-> "return", step_index |-> i, persist |-> TRUE, notify |-> TRUE]
    ELSE IF task.status \in Terminal
    THEN [state |-> [st EXCEPT !.active_task_id = NoTask],
          next |-> "return", step_index |-> i, persist |-> TRUE, notify |-> TRUE]
    ELSE IF i >= Len(task.instructions)
    THEN [state |-> [active_task_id |-> NoTask,
                     tasks |-> (t :> [task EXCEPT !.status = "success",
                                                  !.current_step_status = "success",
                                                  !.completed_at = ts,
                                                  !.state_seq = @ + 1]) @@ st.tasks],
          next |-> "return", step_index |-> i, persist |-> TRUE, notify |-> TRUE]
    ELSE IF task.instructions[i + 1] = "noop"
    THEN LoopBody(SetTask(st, t, [task EXCEPT !.current_step_index = i + 1,
                                              !.current_step_status = "success"]), t, ts)
    ELSE [state |-> SetTask(st, t, [task EXCEPT !.started_at = IF @ = 0 THEN ts ELSE @,
                                                !.status = "running",
                                                !.current_step_status = "running",
                                                !.state_seq = @ + 1]),
          next |-> task.instructions[i + 1], step_index |-> i,
          persist |-> TRUE, notify |-> TRUE]

\* lines 389-391 / 565-567: steps padded with pending placeholders up to step_index
PadSteps(steps, i) ==
    IF Len(steps) > i THEN steps
    ELSE steps \o [k \in 1..(i + 1 - Len(steps)) |-> [status |-> "pending", returncode |-> 0,
                                                       timed_out |-> FALSE]]

\* a runner that records the step and goes on to the next one whatever the step's outcome
PostStepAdvances(st, t, i, kind, returncode, timed_out, ts) ==
    LET task == st.tasks[t]
        step_result == [status |-> IF timed_out \/ returncode # 0 THEN "failed" ELSE "success",
                        returncode |-> returncode, timed_out |-> timed_out]
    IN [state |-> SetTask(st, t, [task EXCEPT
                                    !.steps = [PadSteps(task.steps, i) EXCEPT ![i + 1] = step_result],
                                    !.current_step_index = i + 1,
                                    !.current_step_status = "pending",
                                    !.state_seq = @ + 1]),
        cont |-> TRUE, persist |-> TRUE, notify |-> TRUE]

\* lines 385-442 / 561-608: the critical section after a step.  cont: the runner loops
PostStep(st, t, i, kind, returncode, timed_out, ts) ==
    IF ~HasTask(st, t)
    THEN [state |-> st, cont |-> FALSE, persist |-> FALSE, notify |-> FALSE]
    ELSE
    LET task == st.tasks[t]
        failed == timed_out \/ returncode # 0
        step_result == [status |-> IF failed THEN "failed" ELSE "success",
                        returncode |-> returncode, timed_out |-> timed_out]
        recorded == [task EXCEPT !.steps = [PadSteps(task.steps, i) EXCEPT ![i + 1] = step_result]]
    IN
    IF recorded.cancel_requested
    THEN [state |-> [active_task_id |-> NoTask,
                     tasks |-> (t :> [recorded EXCEPT !.status = "cancelled",
                                                      !.current_step_status = "failed",
                                                      !.completed_at = ts,
                                                      !.state_seq = @ + 1]) @@ st.tasks],
          cont |-> FALSE, persist |-> TRUE, notify |-> TRUE]
    ELSE IF failed
    THEN [state |-> [active_task_id |-> NoTask,
                     tasks |-> (t :> [recorded EXCEPT
                                        !.status = "failed",
                                        !.current_step_status = "failed",
                                        !.completed_at = ts,
                                        !.last_error = IF timed_out THEN "step timed out"
                                                       ELSE IF kind = "wait_for" THEN "wait_for failed"
                                                       ELSE "command failed",
                                        !.state_seq = @ + 1]) @@ st.tasks],
          cont |-> FALSE, persist |-> TRUE, notify |-> TRUE]
    ELSE [state |-> SetTask(st, t, [recorded EXCEPT !.current_step_index = i + 1,
                                                    !.current_step_status = "pending",
                                                    !.state_seq = @ + 1]),
          cont |-> TRUE, persist |-> TRUE, notify |-> TRUE]

\* the runner after the critical section at the top of its loop: returned, or running the
\* step.  asyncio.create_subprocess_shell starts the child before it first suspends, so a
\* shell step's process is live while the runner still awaits the Process object
Proceed(r, lb) ==
    IF lb.next = "return" THEN DoneRunner
    ELSE [task |-> runners[r].task,
          pc |-> IF lb.next = "shell" THEN "spawning" ELSE "probing",
          step_index |-> lb.step_index, kind |-> lb.next,
          proc |-> IF lb.next = "shell" THEN "live" ELSE "none",
          term |-> FALSE, returncode |-> 0, timed_out |-> FALSE]

Commit(r, lb) ==
    /\ state' = lb.state
    /\ disk' = IF lb.persist THEN _persist_state(lb.state) ELSE disk
    /\ waiters' = IF lb.notify THEN _notify_change(waiters) ELSE waiters
    /\ runners' = [runners EXCEPT ![r] = Proceed(r, lb)]
    /\ now' = now + 1
    /\ lastOp' = Internal
    /\ UNCHANGED <<runner_task, current_process, current_process_task_id, ops, restarts,
                   bootIndex, seen>>

\* the coroutine created by start() runs for the first time (lines 285-343, up to 454)
RunnerBegin(r) ==
    /\ runners[r].pc = "ready"
    /\ Commit(r, LoopBody(state, runners[r].task, now + 1))

\* lines 454-460: create_subprocess_shell returns; the runner records the process
RunnerSpawned(r) ==
    /\ runners[r].pc = "spawning"
    /\ runners' = [runners EXCEPT ![r].pc = "waiting"]
    /\ current_process' = r
    /\ current_process_task_id' = runners[r].task
    /\ lastOp' = Internal
    /\ UNCHANGED <<state, disk, runner_task, waiters, now, ops, restarts, bootIndex, seen>>

\* the subprocess ends, by itself or after a terminate request
ProcessExit(r) ==
    /\ runners[r].proc = "live"
    /\ runners' = [runners EXCEPT ![r].proc = "exited"]
    /\ lastOp' = Internal
    /\ UNCHANGED <<state, disk, runner_task, current_process, current_process_task_id,
                   waiters, now, ops, restarts, bootIndex, seen>>

\* lines 528-537 and 539-559: process.wait() returned; the runner forgets the process and
\* reads its return code (0, or not 0)
RunnerReap(r, returncode) ==
    /\ runners[r].pc = "waiting"
    /\ runners[r].proc = "exited"
    /\ runners' = [runners EXCEPT ![r].pc = "reaped", ![r].returncode = returncode]
    /\ current_process' = 0
    /\ current_process_task_id' = NoTask
    /\ lastOp' = Internal
    /\ UNCHANGED <<state, disk, runner_task, waiters, now, ops, restarts, bootIndex, seen>>

\* lines 529-537: the step's timeout expires; the process is killed
RunnerTimeout(r) ==
    /\ runners[r].pc = "waiting"
    /\ runners[r].proc = "live"
    /\ runners' = [runners EXCEPT ![r].pc = "reaped", ![r].proc = "exited",
                                  ![r].returncode = 1, ![r].timed_out = TRUE]
    /\ current_process' = 0
    /\ current_process_task_id' = NoTask
    /\ lastOp' = Internal
    /\ UNCHANGED <<state, disk, runner_task, waiters, now, ops, restarts, bootIndex, seen>>

\* lines 345-383 with _run_wait_for_step: the probe loop ends, by a 2xx answer or by its deadline
WaitForDone(r, ok) ==
    /\ runners[r].pc = "probing"
    /\ runners' = [runners EXCEPT ![r].pc = "reaped",
                                  ![r].returncode = IF ok THEN 0 ELSE 1,
                                  ![r].timed_out = ~ok]
    /\ lastOp' = Internal
    /\ UNCHANGED <<state, disk, runner_task, current_process, current_process_task_id,
                   waiters, now, ops, restarts, bootIndex, seen>>

\* lines 385-451 / 561-608, and the top of the loop again when the runner continues
RunnerPost(r) ==
    /\ runners[r].pc = "reaped"
    /\ LET ps == PostStep(state, runners[r].task, runners[r].step_index, runners[r].kind,
                          runners[r].returncode, runners[r].timed_out, now + 1)
           lb == LoopBody(ps.state, runners[r].task, now + 1)
       IN IF ps.cont
          THEN Commit(r, lb)
          ELSE Commit(r, [state |-> ps.state, next |-> "return", step_index |-> 0,
                          persist |-> ps.persist, notify |-> ps.notify])

(* ------------------------------------------------- __init__ / _load_state *)

\* lines 124-139: the state the constructor loads
_load_state(d) == IF d.exists THEN d.doc ELSE EmptyState

\* the process ends and starts again: a new runtime is constructed from the file
Restart ==
    /\ restarts' = restarts + 1
    /\ state' = _load_state(disk)
    /\ runners' = << >>
    /\ runner_task' = 0
    /\ current_process' = 0
    /\ current_process_task_id' = NoTask
    /\ waiters' = [w \in WaiterIds |-> IdleWaiter]
    /\ bootIndex' = [t \in DOMAIN state'.tasks |-> state'.tasks[t].current_step_index]
    /\ lastOp' = Op("restart", NoTask, "ok")
    /\ UNCHANGED <<disk, now, ops, seen>>

(* ------------------------------------------------------- specifications *)

Inputs == InstructionLists \cup {NotAList}

\* start() and cancel() from the clients
ClientStep(maxOps, maxTasks) ==
    /\ ops < maxOps
    /\ UNCHANGED otherVars
    /\ \/ \E t \in 1..maxTasks, ins \in Inputs : Start(t, ins)
       \/ \E t \in 1..maxTasks : cancel(t)

\* the runner coroutines and their subprocesses
RunnerStep ==
    \/ \E r \in DOMAIN runners : RunnerBegin(r) /\ UNCHANGED otherVars
    \/ \E r \in DOMAIN runners : RunnerSpawned(r) /\ UNCHANGED otherVars
    \/ \E r \in DOMAIN runners : ProcessExit(r) /\ UNCHANGED otherVars
    \/ \E r \in DOMAIN runners, returncode \in {0, 1} :
          RunnerReap(r, returncode) /\ UNCHANGED otherVars
    \/ \E r \in DOMAIN runners : RunnerTimeout(r) /\ UNCHANGED otherVars
    \/ \E r \in DOMAIN runners, ok \in BOOLEAN : WaitForDone(r, ok) /\ UNCHANGED otherVars
    \/ \E r \in DOMAIN runners : RunnerPost(r) /\ UNCHANGED otherVars

\* the runtime with restarts of the process
Next ==
    \/ ClientStep(MaxOps, MaxTasks)
    \/ RunnerStep
    \/ restarts < MaxRestarts /\ Restart /\ UNCHANGED otherVars

Spec == Init /\ [][Next]_vars

\* the runtime with clients that poll get_state()
NextState ==
    \/ ClientStep(MaxOps, MaxTasks)
    \/ RunnerStep
    \/ \E t \in 1..MaxTasks : get_state(t) /\ UNCHANGED otherVars

SpecState == Init /\ [][NextState]_vars

\* the runtime with clients that block in wait_for_change()
NextWait ==
    \/ ClientStep(MaxOps, MaxTasks)
    \/ RunnerStep
    \/ \E w \in WaiterIds, t \in 1..MaxTasks, s \in 0..MaxSince :
          wait_for_change(w, t, s) /\ UNCHANGED otherVars
    \/ \E w \in WaiterIds : WaiterResume(w) /\ UNCHANGED otherVars

SpecWait == Init /\ [][NextWait]_vars

\* the runtime with three task ids in use
NextWide ==
    \/ ClientStep(WideOps, WideTasks)
    \/ RunnerStep

SpecWide == Init /\ [][NextWide]_vars

\* _run_wait_for_step lines 704-813 after a sleep (736, 813): the loop of a wait_for step
\* resolves the target and issues the next HTTP probe; it reads neither the task's
\* state nor the lock
RunnerProbe(r) ==
    /\ runners[r].pc = "probing"
    /\ lastOp' = Op("probe", runners[r].task, "ok")
    /\ UNCHANGED <<state, disk, runners, runner_task, current_process,
                   current_process_task_id, waiters, now, ops, restarts, bootIndex, seen>>

\* the runtime with the probes of wait_for steps as steps of their own
NextProbing ==
    \/ ClientStep(MaxOps, MaxTasks)
    \/ RunnerStep
    \/ \E r \in DOMAIN runners : RunnerProbe(r) /\ UNCHANGED otherVars

SpecProbing == Init /\ [][NextProbing]_vars

(* --------------------------------------------------------------- events *)

\* the characters str.isdigit() accepts and int() reads, in the order of their value
Digits == <<"0", "1", "2", "3", "4", "5", "6", "7", "8", "9">>

isdigit(text) == text # << >> /\ \A i \in DOMAIN text : \E d \in DOMAIN Digits : Digits[d] = text[i]

\* int(text) of a text of digits
RECURSIVE int(_)
int(text) ==
    IF text = << >> THEN 0
    ELSE 10 * int(SubSeq(text, 1, Len(text) - 1))
         + ((CHOOSE d \in DOMAIN Digits : Digits[d] = text[Len(text)]) - 1)

\* str(n) of a natural number
RECURSIVE str(_)
str(n) == IF n < 10 THEN <<Digits[n + 1]>> ELSE str(n \div 10) \o <<Digits[(n % 10) + 1]>>

\* the task ids the clients use, as the strings start() stores them under: the first two
\* are "7" and "07"
TaskKey(t) == IF t = 1 THEN <<"7">> ELSE IF t = 2 THEN <<"0", "7">> ELSE <<"a">> \o str(t)

\* lines 343 / 468: `int(task_id) if str(task_id).isdigit() else str(task_id)`
task_id_payload(task_id) ==
    IF isdigit(task_id) THEN [isint |-> TRUE, int |-> int(task_id), text |-> << >>]
    ELSE [isint |-> FALSE, int |-> 0, text |-> task_id]

\* the payload of an event runner r sends: the closure's task_id_payload and step_index
Event(name, r) ==
    [event |-> name, automation_task_id |-> task_id_payload(TaskKey(runners[r].task)),
     automation_step_index |-> runners[r].step_index, runner |-> r]

\* the events with the given name that runner r sent for its step i
EventsOf(log, name, r, i) ==
    {k \in DOMAIN log : log[k].event = name /\ log[k].runner = r
                         /\ log[k].automation_step_index = i}

\* lines 483-516: the flusher finds output pending and sends it
_flush_pending(r) ==
    /\ runners[r].pc = "waiting"
    /\ Cardinality(EventsOf(events, "terminal_exec_output", r, runners[r].step_index)) < MaxOutputs
    /\ events' = Append(events, Event("terminal_exec_output", r))
    /\ lastOp' = Internal
    /\ UNCHANGED <<state, disk, runners, runner_task, current_process, current_process_task_id,
                   waiters, now, ops, restarts, bootIndex, seen, probe, conn, hostVars>>

\* a runner that sends the result without awaiting the flusher first
SendResultFirst(r, last) ==
    events' = events \o <<Event("terminal_exec_result", r)>>
                     \o (IF last THEN <<Event("terminal_exec_output", r)>> ELSE << >>)

\* lines 533-559: the flusher is stopped and awaited, sending what is still pending (last),
\* and then the result event is sent
SendResult(r, last) ==
    events' = events \o (IF last THEN <<Event("terminal_exec_output", r)>> ELSE << >>)
                     \o <<Event("terminal_exec_result", r)>>

\* lines 526-559: a shell step ends by the exit of its process
ShellStepEnds(r, returncode, last) ==
    /\ RunnerReap(r, returncode)
    /\ SendResult(r, last)
    /\ UNCHANGED <<probe, conn, hostVars>>

\* lines 529-559: a shell step ends by its timeout
ShellStepTimesOut(r, last) ==
    /\ RunnerTimeout(r)
    /\ SendResult(r, last)
    /\ UNCHANGED <<probe, conn, hostVars>>

\* lines 355-383: _run_wait_for_step sends an output event for each attempt and returns;
\* the result event is sent
WaitForStepEnds(r, ok) ==
    /\ WaitForDone(r, ok)
    /\ SendResult(r, TRUE)
    /\ UNCHANGED <<probe, conn, hostVars>>

\* lines 454-458: create_subprocess_shell raises (a command with a NUL character, no
\* process or descriptor left): _run_task has no handler for it, the coroutine ends with
\* the exception right after the critical section that marked the step running
SpawnFails(r) ==
    /\ runners[r].pc \in {"ready", "reaped"}
    /\ LET ps == PostStep(state, runners[r].task, runners[r].step_index, runners[r].kind,
                          runners[r].returncode, runners[r].timed_out, now + 1)
           lb == IF runners[r].pc = "ready"
                 THEN LoopBody(state, runners[r].task, now + 1)
                 ELSE LoopBody(ps.state, runners[r].task, now + 1)
       IN /\ runners[r].pc = "reaped" => ps.cont
          /\ lb.next = "shell"
          /\ state' = lb.state
          /\ disk' = _persist_state(lb.state)
          /\ waiters' = _notify_change(waiters)
    /\ runners' = [runners EXCEPT ![r] = DoneRunner]
    /\ now' = now + 1
    /\ lastOp' = Internal
    /\ UNCHANGED <<runner_task, current_process, current_process_task_id, ops, restarts,
                   bootIndex, seen, events, probe, conn, hostVars>>

\* lines 561-608 with 141-150: _persist_state raises in the critical section after a step
\* (the file cannot be written): the state in memory is changed, the file is not, nobody
\* is notified, and the coroutine ends with the exception
PersistFails(r) ==
    /\ runners[r].pc = "reaped"
    /\ LET ps == PostStep(state, runners[r].task, runners[r].step_index, runners[r].kind,
                          runners[r].returncode, runners[r].timed_out, now + 1)
       IN /\ ps.persist
          /\ state' = ps.state
    /\ runners' = [runners EXCEPT ![r] = DoneRunner]
    /\ now' = now + 1
    /\ lastOp' = Internal
    /\ UNCHANGED <<disk, waiters, runner_task, current_process, current_process_task_id, ops,
                   restarts, bootIndex, seen, events, probe, conn, hostVars>>

\* lines 327-331 with 141-150: the step at current_step_index has neither a command nor
\* a wait_for target, and _persist_state raises at line 330 (the file cannot be written):
\* the index and the step status are changed in memory, state_seq is not, and the
\* coroutine ends with the exception.  From "reaped" the section after the step has
\* been completed first
SkipPersistFails(r) ==
    /\ runners[r].pc \in {"ready", "reaped"}
    /\ LET t == runners[r].task
           ps == PostStep(state, t, runners[r].step_index, runners[r].kind,
                          runners[r].returncode, runners[r].timed_out, now + 1)
           first == runners[r].pc = "ready"
           st == IF first THEN state ELSE ps.state
       IN /\ ~first => ps.cont
          /\ HasTask(st, t)
          /\ ~st.tasks[t].cancel_requested
          /\ st.tasks[t].status \notin Terminal
          /\ st.tasks[t].current_step_index < Len(st.tasks[t].instructions)
          /\ st.tasks[t].instructions[st.tasks[t].current_step_index + 1] = "noop"
          /\ state' = SetTask(st, t, [st.tasks[t] EXCEPT !.current_step_index = @ + 1,
                                                         !.current_step_status = "success"])
          /\ disk' = IF first THEN disk ELSE _persist_state(ps.state)
          /\ waiters' = IF first THEN waiters ELSE _notify_change(waiters)
    /\ runners' = [runners EXCEPT ![r] = DoneRunner]
    /\ now' = now + 1
    /\ lastOp' = Internal
    /\ UNCHANGED <<runner_task, current_process, current_process_task_id, ops, restarts,
                   bootIndex, seen, events, probe, conn, hostVars>>

\* the runtime with the state file failing to be written when an empty step is skipped
NextSkip ==
    \/ ClientStep(MaxOps, MaxTasks)
    \/ RunnerStep
    \/ \E r \in DOMAIN runners : SkipPersistFails(r)

SpecSkip == Init /\ [][NextSkip]_vars

\* the runtime with its event sender bound (lines 840, 857: every handler binds it before
\* it calls the runtime), and with the failures of spawning and of writing the file
NextEvents ==
    \/ ClientStep(EventOps, MaxTasks)
    \/ \E r \in DOMAIN runners : RunnerBegin(r) /\ UNCHANGED otherVars
    \/ \E r \in DOMAIN runners : RunnerSpawned(r) /\ UNCHANGED otherVars
    \/ \E r \in DOMAIN runners : ProcessExit(r) /\ UNCHANGED otherVars
    \/ \E r \in DOMAIN runners : _flush_pending(r)
    \/ \E r \in DOMAIN runners, returncode \in {0, 1}, last \in BOOLEAN :
          ShellStepEnds(r, returncode, last)
    \/ \E r \in DOMAIN runners, last \in BOOLEAN : ShellStepTimesOut(r, last)
    \/ \E r \in DOMAIN runners, ok \in BOOLEAN : WaitForStepEnds(r, ok)
    \/ \E r \in DOMAIN runners : RunnerPost(r) /\ UNCHANGED otherVars
    \/ \E r \in DOMAIN runners : SpawnFails(r)
    \/ \E r \in DOMAIN runners : PersistFails(r)

SpecEvents == Init /\ [][NextEvents]_vars

(* ------------------------------------------------- _run_wait_for_step *)

WAIT_FOR_STEP_INTERVAL_SECONDS == 3

WAIT_FOR_REQUEST_TIMEOUT_SECONDS == 5

\* the timeouts _extract_step_timeout hands to a wait_for step, in seconds
ProbeTimeouts == {1, 4, 7}

\* str.lower() on the characters the targets are written with
lower(text) ==
    [i \in DOMAIN text |->
        CASE text[i] = "H" -> "h" [] text[i] = "T" -> "t" [] text[i] = "P" -> "p"
          [] text[i] = "S" -> "s" [] OTHER -> text[i]]

startswith(text, prefix) ==
    Len(text) >= Len(prefix) /\ SubSeq(text, 1, Len(prefix)) = prefix

\* str.strip() for the blank
RECURSIVE strip(_)
strip(text) ==
    IF text = << >> THEN text
    ELSE IF Head(text) = " " THEN strip(Tail(text))
    ELSE IF text[Len(text)] = " " THEN strip(SubSeq(text, 1, Len(text) - 1))
    ELSE text

\* the wait_for targets of the steps, as _extract_step_wait_for strips them: "http://x",
\* "HTTPS://x", "https://x", "x", "ttp://x" and "//http://"
WaitForTargets ==
    { <<"h", "t", "t", "p", ":", "/", "/", "x">>,
      <<"H", "T", "T", "P", "S", ":", "/", "/", "x">>,
      <<"h", "t", "t", "p", "s", ":", "/", "/", "x">>,
      <<"x">>,
      <<"t", "t", "p", ":", "/", "/", "x">>,
      <<"/", "/", "h", "t", "t", "p", ":", "/", "/">> }

\* lines 634-643, for a target without an [exposed:<port>] placeholder: the URL, or the
\* ValueError raised
_resolve_wait_for_url(target) ==
    LET value == strip(target) IN
    IF value = << >> THEN [ok |-> FALSE, url |-> << >>, error |-> "target cannot be empty"]
    ELSE IF ~(\/ startswith(lower(value), <<"h", "t", "t", "p", ":", "/", "/">>)
              \/ startswith(lower(value), <<"h", "t", "t", "p", "s", ":", "/", "/">>))
    THEN [ok |-> FALSE, url |-> << >>, error |-> "target must start with http:// or https://"]
    ELSE [ok |-> TRUE, url |-> value, error |-> None]

\* line 700: _run_wait_for_step is called
ProbeBegin(target, timeout_seconds) ==
    /\ probe.pc = "idle"
    /\ probe' = [IdleProbe EXCEPT !.pc = "loop", !.target = target,
                                  !.deadline = IF timeout_seconds < 1 THEN 1 ELSE timeout_seconds]
    /\ UNCHANGED <<state, disk, runners, runner_task, current_process, current_process_task_id,
                   waiters, now, ops, restarts, bootIndex, seen, lastOp, events, conn, hostVars>>

\* lines 704-813: one attempt.  The target is resolved; when that raises, the error is
\* reported in an output event and the loop sleeps; otherwise one HTTP request is made,
\* which takes up to the request timeout and finds the service ready or not
ProbeAttempt(ready, took) ==
    /\ probe.pc = "loop"
    /\ probe.clock < probe.deadline
    /\ LET resolved == _resolve_wait_for_url(probe.target) IN
       IF ~resolved.ok
       THEN probe' = [probe EXCEPT !.attempts = @ + 1, !.last_error = resolved.error,
                                   !.outputs = @ + 1, !.pc = "sleeping"]
       ELSE IF ready
       THEN probe' = [probe EXCEPT !.attempts = @ + 1, !.requests = @ + 1,
                                   !.clock = @ + took, !.outputs = @ + 1,
                                   !.returncode = 0, !.timed_out = FALSE, !.pc = "returned"]
       ELSE probe' = [probe EXCEPT !.attempts = @ + 1, !.requests = @ + 1,
                                   !.clock = @ + took, !.outputs = @ + 1,
                                   !.last_error = "not ready", !.pc = "sleeping"]
    /\ UNCHANGED <<state, disk, runners, runner_task, current_process, current_process_task_id,
                   waiters, now, ops, restarts, bootIndex, seen, lastOp, events, conn, hostVars>>

\* lines 736 / 813: asyncio.sleep(WAIT_FOR_STEP_INTERVAL_SECONDS)
ProbeSleep ==
    /\ probe.pc = "sleeping"
    /\ probe' = [probe EXCEPT !.clock = @ + WAIT_FOR_STEP_INTERVAL_SECONDS, !.pc = "loop"]
    /\ UNCHANGED <<state, disk, runners, runner_task, current_process, current_process_task_id,
                   waiters, now, ops, restarts, bootIndex, seen, lastOp, events, conn, hostVars>>

\* lines 704 and 815-830: the deadline has passed
ProbeDeadline ==
    /\ probe.pc = "loop"
    /\ probe.clock >= probe.deadline
    /\ probe' = [probe EXCEPT !.returncode = 1, !.timed_out = TRUE, !.pc = "returned"]
    /\ UNCHANGED <<state, disk, runners, runner_task, current_process, current_process_task_id,
                   waiters, now, ops, restarts, bootIndex, seen, lastOp, events, conn, hostVars>>

\* the task record after lines 385-442 recorded the step that _run_wait_for_step ran, for
\* a task whose only step it is
RecordedProbe ==
    LET running == [NewTask(<<"wait_for">>, 0) EXCEPT !.status = "running",
                                                      !.current_step_status = "running",
                                                      !.state_seq = 2]
    IN PostStep(SetTask(EmptyState, 1, running), 1, 0, "wait_for", probe.returncode,
                probe.timed_out, 0).state.tasks[1]

\* wait_for steps, one at a time
NextProbe ==
    \/ \E target \in WaitForTargets, timeout_seconds \in ProbeTimeouts :
          ProbeBegin(target, timeout_seconds)
    \/ \E ready \in BOOLEAN, took \in {0, WAIT_FOR_REQUEST_TIMEOUT_SECONDS} :
          ProbeAttempt(ready, took)
    \/ ProbeSleep
    \/ ProbeDeadline

SpecProbe == Init /\ [][NextProbe]_vars

(* ------------------------------------------------- ConnectionManager *)

\* connection attempts of one process
MaxAttempts == 3

\* frames the gateway sends on one connection
MaxFrames == 2

AUTH_REJECTED_EXIT_CODE == 86

\* what the gateway answers to the public-key frame
Responses == {"ok", "OK", "denied"}

\* what websockets.connect raises: an OSError (refused, unreachable, TLS), a
\* WebSocketException (bad handshake), or the asyncio.TimeoutError of its open
\* timeout, which is an OSError only from Python 3.11 on
DialErrors == {"OSError", "WebSocketException", "TimeoutError"}

\* line 63: except (OSError, websockets.WebSocketException)
Caught(exc) == exc \in {"OSError", "WebSocketException"}

\* an _authenticate that takes any reply for the confirmation
AuthenticateAnyReply(response) == response # None

\* line 79: the reply that lets _authenticate return
_authenticate(response) == response = "ok"

\* lines 58-68: the try statement is left, normally (exc = None) or by exc.  The
\* async with closes the socket, the except clause swallows what it names, and the
\* finally clause sleeps unless the stop event is set
Leave(c, exc) ==
    LET pending == IF exc = None \/ Caught(exc) THEN None ELSE exc
        closed == [c EXCEPT !.websocket = IF @ = "open" THEN "closed" ELSE @,
                            !.raising = pending]
    IN IF closed.stop_event
       THEN [closed EXCEPT !.pc = IF pending = None THEN "loop_top" ELSE "failed"]
       ELSE [closed EXCEPT !.pc = "sleeping"]

ConnStep(c) ==
    /\ conn' = c
    /\ UNCHANGED <<state, disk, runners, runner_task, current_process, current_process_task_id,
                   waiters, now, ops, restarts, bootIndex, seen, lastOp, events, probe, hostVars>>

\* run_until_interrupt lines 91-109 and start() 42-46
ManagerStart ==
    /\ conn.main = "created"
    /\ ConnStep([conn EXCEPT !.main = "waiting", !.pc = "loop_top"])

\* line 55: while not self._stop_event.is_set(), then the dial of line 58
LoopCheck ==
    /\ conn.pc = "loop_top"
    /\ conn.stop_event \/ conn.attempts < MaxAttempts
    /\ ConnStep(IF conn.stop_event THEN [conn EXCEPT !.pc = "done"]
                ELSE [conn EXCEPT !.pc = "dialing", !.attempts = @ + 1])

\* lines 58-60 and 72-73: the socket is open and the public key is sent
DialOk ==
    /\ conn.pc = "dialing"
    /\ ConnStep([conn EXCEPT !.pc = "awaiting_reply", !.websocket = "open",
                             !.response = None, !.dispatched = 0])

\* line 58: websockets.connect raises
DialFails(exc) ==
    /\ conn.pc = "dialing"
    /\ ConnStep(Leave(conn, exc))

\* lines 78-81: recv() returns the gateway's reply
Reply(response) ==
    /\ conn.pc = "awaiting_reply"
    /\ ConnStep(IF _authenticate(response)
                THEN [conn EXCEPT !.response = response, !.pc = "listening"]
                ELSE Leave([conn EXCEPT !.response = response, !.rejected = TRUE],
                           "RuntimeError"))

\* lines 85-87: one frame is handed to the multiplexer
Frame ==
    /\ conn.pc = "listening"
    /\ conn.dispatched < MaxFrames
    /\ ConnStep([conn EXCEPT !.dispatched = @ + 1])

\* lines 78 / 85: the transport fails or the gateway closes with an error
TransportError ==
    /\ conn.pc \in {"awaiting_reply", "listening"}
    /\ ConnStep(Leave(conn, "WebSocketException"))

\* line 85: the gateway closes normally and the async for ends
CleanClose ==
    /\ conn.pc = "listening"
    /\ ConnStep(Leave(conn, None))

\* line 68: the reconnect delay is over; an exception the except clause did not
\* name now leaves _runner
SleepEnds ==
    /\ conn.pc = "sleeping"
    /\ ConnStep([conn EXCEPT !.pc = IF conn.raising = None THEN "loop_top" ELSE "failed"])

\* lines 93-95: SIGINT or SIGTERM
Signal ==
    /\ conn.main = "waiting"
    /\ ~conn.signalled
    /\ ConnStep([conn EXCEPT !.signalled = TRUE])

\* run_until_interrupt lines 111 and 115, stop() lines 48-50
MainStop ==
    /\ conn.main = "waiting"
    /\ conn.signalled
    /\ ConnStep([conn EXCEPT !.main = "stopping", !.stop_event = TRUE])

\* stop() lines 51-52: the task is done; its exception, if any, leaves asyncio.run
MainJoin ==
    /\ conn.main = "stopping"
    /\ conn.pc \in {"done", "failed"}
    /\ ConnStep([conn EXCEPT !.main = "exited",
                             !.exit_code = IF conn.pc = "failed" THEN 1 ELSE 0])

\* the steps that need nothing from the gateway or the operator: the dial ends within
\* its open timeout, the sleep ends, awaits of finished work return
ManagerStep ==
    \/ ManagerStart
    \/ LoopCheck
    \/ DialOk
    \/ \E exc \in DialErrors : DialFails(exc)
    \/ SleepEnds
    \/ MainStop
    \/ MainJoin

NextConn ==
    \/ ManagerStart
    \/ LoopCheck
    \/ DialOk
    \/ \E exc \in DialErrors : DialFails(exc)
    \/ \E response \in Responses : Reply(response)
    \/ Frame
    \/ TransportError
    \/ CleanClose
    \/ SleepEnds
    \/ Signal
    \/ MainStop
    \/ MainJoin

SpecConn == Init /\ [][NextConn]_vars

SpecConnFair == SpecConn /\ WF_vars(ManagerStep)

(* ------------------------------------------------- command handlers *)

\* commands one process handles
MaxCommands == 2

\* a key the dict does not have
Absent == "absent"

RequestIds == {"r1"}

Sessions == {"s1"}

\* the fields of a request that handle() reads; source_client_session may be JSON null
Messages ==
    [request_id : RequestIds \cup {Absent},
     source_client_session : Sessions \cup {Absent, None}]

\* what execute() does: it returns a response dict, which may have set request_id and
\* client_sessions itself, or it raises
Outcomes ==
    [raised : {FALSE}, request_id : {Absent, "h1"}, client_sessions : {Absent, <<"s9">>},
     error : {None}]
    \cup [raised : {TRUE}, request_id : {Absent}, client_sessions : {Absent},
          error : {"diff parameter is required"}]

\* message.get(key) used as a condition
Truthy(value) == value \notin {Absent, None, ""}

\* a copy of request_id that replaces the one the handler set
CopyRequestIdAlways(message, response) ==
    IF message.request_id # Absent THEN message.request_id ELSE response.request_id

\* diff_handlers.py lines 68-69
CopyRequestId(message, response) ==
    IF message.request_id # Absent /\ response.request_id = Absent
    THEN message.request_id
    ELSE response.request_id

\* an error payload that does not carry the request's request_id
ErrorPayloadUntagged(message, error) ==
    [event |-> "file_apply_diff_response", success |-> FALSE, error |-> error,
     request_id |-> Absent, client_sessions |-> Absent]

\* diff_handlers.py lines 96-107
ErrorPayload(message, error) ==
    [event |-> "file_apply_diff_response", success |-> FALSE, error |-> error,
     request_id |-> message.request_id, client_sessions |-> Absent]

\* lines 79-90 and 109-114: the payload goes to the requesting session through the
\* control channel, or to send_response
Route(message, payload) ==
    IF Truthy(message.source_client_session)
    THEN [payload EXCEPT !.client_sessions = <<message.source_client_session>>]
            @@ [via |-> "control_channel.send"]
    ELSE payload @@ [via |-> "send_response"]

\* FileApplyDiffHandler.handle, lines 63-114: the frames sent for one command
handle(message, outcome) ==
    IF ~outcome.raised
    THEN << Route(message,
                  [event |-> "file_apply_diff_response", success |-> TRUE, error |-> None,
                   request_id |-> CopyRequestId(message, outcome),
                   client_sessions |-> outcome.client_sessions]) >>
    ELSE << Route(message, ErrorPayload(message, outcome.error)) >>

RouterStep(r) ==
    /\ router' = r
    /\ UNCHANGED <<state, disk, runners, runner_task, current_process, current_process_task_id,
                   waiters, now, ops, restarts, bootIndex, seen, lastOp, events, probe, conn,
                   forwarding, container, storage, infraVars>>

\* one file_apply_diff command is handled; handle() returns normally
Handle(message, outcome) ==
    /\ router.exit_code = Running
    /\ Len(router.handled) < MaxCommands
    /\ RouterStep([router EXCEPT !.handled =
                      Append(@, [command |-> "file_apply_diff", message |-> message,
                                 outcome |-> outcome, frames |-> handle(message, outcome),
                                 returned |-> TRUE])])

(* ------------------------------------------------- update_portacode_cli *)

RESTART_EXIT_CODE == 42

\* where the agent runs when it is asked to update: whether pip succeeds, fails or cannot
\* be run, whether systemd supervises the process, whether it has a terminal, and
\* whether the service manager can restart the service
UpdateEnvs ==
    [install : {"ok", "failed", "raises"}, systemd : BOOLEAN, tty : BOOLEAN,
     service : {"ok", "raises"}]

\* a request_restart that always leaves the restart to the service manager
RestartNeverExits(method, in_service, env) == "returned"

\* restart.py lines 79-99: "exit" when SystemExit(RESTART_EXIT_CODE) is raised,
\* "returned" when restart_service was called and the function returned, "raises" when
\* restart_service raised to the caller
request_restart(method, in_service, env) ==
    IF method = "exit" THEN "exit"
    ELSE IF method = "auto" /\ in_service /\ env.systemd /\ ~env.tty THEN "exit"
    ELSE IF in_service
    THEN (IF env.service = "ok" THEN "returned" ELSE "exit")
    ELSE (IF env.service = "ok" THEN "returned" ELSE "raises")

\* the update request
UpdateMessage == [request_id |-> "r1", source_client_session |-> "s1"]

\* UpdatePortacodeHandler.execute, update_handler.py lines 19-62; response holds the
\* dict execute returns, and is empty when it returns None or does not return
UpdatePortacodeCli(message, env) ==
    /\ router.exit_code = Running
    /\ Len(router.handled) < MaxCommands
    /\ LET failure == [event |-> "update_portacode_response", success |-> FALSE]
           success == [event |-> "update_portacode_response", success |-> TRUE,
                       via |-> "send_response"]
           restart == request_restart("auto", TRUE, env)
           entry == [command |-> "update_portacode_cli", message |-> message, env |-> env]
       IN IF env.install # "ok"
          THEN RouterStep([router EXCEPT !.handled =
                   Append(@, entry @@ [frames |-> << >>, response |-> <<failure>>,
                                       returned |-> TRUE])])
          ELSE RouterStep([handled |-> Append(router.handled,
                               entry @@ [frames |-> <<success>>, response |-> << >>,
                                         returned |-> restart = "returned"]),
                           exit_code |-> IF restart = "exit" THEN RESTART_EXIT_CODE
                                         ELSE router.exit_code])

NextRouter ==
    \/ \E message \in Messages, outcome \in Outcomes : Handle(message, outcome)
    \/ \E env \in UpdateEnvs : UpdatePortacodeCli(UpdateMessage, env)

SpecRouter == Init /\ [][NextRouter]_vars

(* ------------------------------------------------- cloudflare forwarding *)

\* forwarding updates of one process
MaxUpdates == 2

\* the tunnel's domain, "d"
Domain == <<"d">>

endswith(text, suffix) ==
    Len(text) >= Len(suffix) /\ SubSeq(text, Len(text) - Len(suffix) + 1, Len(text)) = suffix

\* f"http://[{device_id}]:{port}", line 685
DeviceDestination(device_id, port) == <<"http://[">> \o device_id \o <<"]:">> \o str(port)

\* _parse_destination, lines 75-99, for "http://[<digits>]:<digits>" (DEVICE_DEST_PATTERN)
\* and for other http URLs
_parse_destination(destination) ==
    IF /\ Len(destination) >= 4
       /\ destination[1] = "http://["
       /\ \E k \in 3..(Len(destination) - 1) :
             /\ destination[k] = "]:"
             /\ isdigit(SubSeq(destination, 2, k - 1))
             /\ isdigit(SubSeq(destination, k + 1, Len(destination)))
    THEN LET k == CHOOSE k \in 3..(Len(destination) - 1) : destination[k] = "]:" IN
         [type |-> "device", device_id |-> SubSeq(destination, 2, k - 1),
          port |-> int(SubSeq(destination, k + 1, Len(destination)))]
    ELSE [type |-> "url", device_id |-> << >>, port |-> 0]

\* a rule as _normalize_rules and set_container_forwarding_rules build it
Rule(hostname, destination) ==
    [hostname |-> hostname, destination |-> destination,
     parsed |-> _parse_destination(destination)]

\* the rule lists a configure_cloudflare_forwarding request carries: "a.d" to a URL,
\* "b.d" to device 8, "7.d" to a URL, or none
UserRuleLists ==
    { << >>,
      << Rule(<<"a", ".">> \o Domain, <<"http://app:80">>) >>,
      << Rule(<<"a", ".">> \o Domain, <<"http://app:80">>),
         Rule(<<"b", ".">> \o Domain, DeviceDestination(<<"8">>, 80)) >>,
      << Rule(<<"7", ".">> \o Domain, <<"http://app:80">>) >> }

\* the expose_ports lists of the requests
PortLists ==
    { << >>, <<80>>, <<80, 443>>, <<80, 80>>, <<80, 443, 8080>>, <<80, 80, 443, 443>>,
      <<80, 443, 8080, 22>>, <<0>>, <<80, 65536>> }

\* CONTAINER_SUBDOMAIN_RE, line 42: the device_id group of a label that matches
\* ^(?:(\d+)_)?(\d+)$, and the empty text for a label that does not
LabelDevice(label) ==
    IF isdigit(label) THEN label
    ELSE IF \E k \in 2..(Len(label) - 1) :
               /\ label[k] = "_"
               /\ isdigit(SubSeq(label, 1, k - 1))
               /\ isdigit(SubSeq(label, k + 1, Len(label)))
    THEN LET k == CHOOSE k \in 2..(Len(label) - 1) : label[k] = "_" IN
         SubSeq(label, k + 1, Len(label))
    ELSE << >>

\* a test that looks at the destination only
TargetsByDestinationOnly(rule, container_device_id, domain) ==
    rule.parsed.type = "device" /\ rule.parsed.device_id = container_device_id

\* lines 645-661
_rule_targets_container(rule, container_device_id, domain) ==
    \/ rule.parsed.type = "device" /\ rule.parsed.device_id = container_device_id
    \/ /\ endswith(rule.hostname, <<".">> \o domain)
       /\ LabelDevice(SubSeq(rule.hostname, 1, Len(rule.hostname) - Len(domain) - 1))
              = container_device_id

\* lines 783-795: the ports of expose_ports without repetitions, in order
RECURSIVE normalized_ports(_)
normalized_ports(raw_ports) ==
    IF raw_ports = << >> THEN << >>
    ELSE LET front == normalized_ports(SubSeq(raw_ports, 1, Len(raw_ports) - 1))
             port == raw_ports[Len(raw_ports)]
         IN IF \E i \in DOMAIN front : front[i] = port THEN front ELSE Append(front, port)

\* a check of expose_ports that does not look at the range of the ports
ValidatesCountOnly(raw_ports) ==
    IF Len(normalized_ports(raw_ports)) > 3 THEN "A maximum of 3 ports can be exposed"
    ELSE None

\* lines 785-797: the ValueError raised for expose_ports, None when it is accepted
ValidatePorts(raw_ports) ==
    IF \E i \in DOMAIN raw_ports : raw_ports[i] < 1 \/ raw_ports[i] > 65535
    THEN "expose_ports entries must be between 1 and 65535"
    ELSE IF Len(normalized_ports(raw_ports)) > 3 THEN "A maximum of 3 ports can be exposed"
    ELSE None

\* lines 799-805 and 372-380: the subdomain of the port at an index
Subdomain(device_id, index) ==
    IF index = 0 THEN device_id ELSE str(index) \o <<"_">> \o device_id

\* lines 683-692
NewRules(device_id, ports, domain) ==
    [i \in DOMAIN ports |->
        Rule(Subdomain(device_id, i - 1) \o <<".">> \o domain,
             DeviceDestination(device_id, ports[i]))]

\* lines 693-699
ExposedPorts(device_id, ports, domain) ==
    [i \in DOMAIN ports |->
        [port |-> ports[i],
         hostname |-> Subdomain(device_id, i - 1) \o <<".">> \o domain,
         url |-> <<"https://">> \o Subdomain(device_id, i - 1) \o <<".">> \o domain]]

\* lines 676-680
RECURSIVE preserved_rules(_, _, _)
preserved_rules(existing_rules, device_id, domain) ==
    IF existing_rules = << >> THEN << >>
    ELSE LET rest == preserved_rules(Tail(existing_rules), device_id, domain) IN
         IF _rule_targets_container(Head(existing_rules), device_id, domain) THEN rest
         ELSE <<Head(existing_rules)>> \o rest

\* ingress entries for the rules that point at a device only
BuildDeviceEntriesOnly(rules) ==
    LET RECURSIVE Pick(_)
        Pick(rs) == IF rs = << >> THEN << >>
                    ELSE IF Head(rs).parsed.type = "device"
                    THEN <<[hostname |-> Head(rs).hostname]>> \o Pick(Tail(rs))
                    ELSE Pick(Tail(rs))
    IN Pick(rules)

\* lines 220-243: one ingress entry per rule, in order; the config file lists them
\* (276-295)
_build_ingress_entries(rules) == [i \in DOMAIN rules |-> [hostname |-> rules[i].hostname]]

\* what `cloudflared tunnel route dns` printed when it failed
DnsOutputs ==
    { [stderr |-> "record exists", stdout |-> ""], [stderr |-> "", stdout |-> "failed"],
      [stderr |-> "", stdout |-> ""] }

\* lines 309-316: the error _route_dns raises
DnsError(output) ==
    [kind |-> "RuntimeError",
     details |-> IF output.stderr # "" THEN output.stderr
                 ELSE IF output.stdout # "" THEN output.stdout ELSE "exit=1"]

\* a pipeline that persists the rules before the DNS records are made
RulesPersistedEarly(stored, rules) == rules

\* lines 363-365: the exception of _route_dns leaves the function before
\* persist_forwarding_state is reached
RulesAfterDnsFailure(stored, rules) == stored

\* the steps of _apply_and_persist_forwarding_rules that can fail
Faults == {"none", "resolve", "config", "dns", "reload", "persist"}

\* _apply_and_persist_forwarding_rules, lines 342-369, with the step that fails and the
\* output of the DNS command: the files afterwards, and the error raised
_apply_and_persist_forwarding_rules(files, rules, fault, output) ==
    LET entries == _build_ingress_entries(rules)
        hostnames == {entries[i].hostname : i \in DOMAIN entries}
        written == [files EXCEPT !.config = entries]
        routed == [written EXCEPT !.dns = @ \cup hostnames]
    IN CASE fault = "resolve" ->
                [files |-> files, error |-> [kind |-> "RuntimeError", details |-> "lease"]]
         [] fault = "config" -> [files |-> files, error |-> [kind |-> "RuntimeError", details |-> "config"]]
         [] fault = "dns" /\ hostnames # {} ->
                [files |-> [written EXCEPT !.rules = RulesAfterDnsFailure(files.rules, rules)],
                 error |-> DnsError(output)]
         [] fault = "reload" -> [files |-> routed, error |-> [kind |-> "RuntimeError", details |-> "reload"]]
         [] fault = "persist" -> [files |-> routed, error |-> [kind |-> "OSError", details |-> "persist"]]
         [] OTHER -> [files |-> [routed EXCEPT !.rules = rules], error |-> NoError]

\* the failing step of a request and, for the DNS step, what the command printed
FaultCases ==
    {c \in [fault : Faults \cup {"sync"}, output : DnsOutputs] :
        c.fault # "dns" => c.output = [stderr |-> "", stdout |-> ""]}

ForwardingStep(f) ==
    /\ forwarding' = f
    /\ UNCHANGED <<state, disk, runners, runner_task, current_process, current_process_task_id,
                   waiters, now, ops, restarts, bootIndex, seen, lastOp, events, probe, conn,
                   router, container, storage, infraVars>>

\* the requests begun and not yet finished
Pending == {t \in Tids : forwarding.threads[t].pc # "idle"}

\* CloudflareForwardingHandler.execute lines 740-752, on a worker thread: without
\* "rules" in the message the stored rules are read, here, before the lock is taken
ConfigureBegin(t, from_storage, user_rules) ==
    /\ forwarding.threads[t].pc = "idle"
    /\ forwarding.updates + Cardinality(Pending) < MaxUpdates
    /\ from_storage => user_rules = << >>
    /\ ForwardingStep([forwarding EXCEPT !.threads[t] =
           [pc |-> "ready", from_storage |-> from_storage,
            rules |-> IF from_storage THEN forwarding.files.rules ELSE user_rules]])

\* lines 754-764: the critical section under _FORWARDING_UPDATE_LOCK
ConfigureApply(t, c) ==
    /\ forwarding.threads[t].pc = "ready"
    /\ c.fault # "sync"
    /\ c.fault = "dns" => forwarding.threads[t].rules # << >>
    /\ LET mine == forwarding.threads[t]
           done == _apply_and_persist_forwarding_rules(forwarding.files, mine.rules,
                                                       c.fault, c.output)
       IN ForwardingStep(
            [files |-> done.files,
             threads |-> [forwarding.threads EXCEPT ![t] =
                            [pc |-> "idle", rules |-> << >>, from_storage |-> FALSE]],
             updates |-> forwarding.updates + 1,
             last |-> [command |-> "configure_cloudflare_forwarding", device_id |-> << >>,
                       expose_ports |-> << >>, rules |-> mine.rules,
                       from_storage |-> mine.from_storage,
                       stored |-> forwarding.files.rules, exposed_ports |-> << >>,
                       before |-> forwarding.files, after |-> done.files,
                       error |-> done.error, fault |-> c.fault]])

\* a push failure that ends the request whatever the table holds
SyncFailureAlwaysRaises(exposed_ports) == TRUE

\* lines 713-721: an exception of _sync_exposed_services_into_container is raised again
\* only when the table is not empty
SyncFailureRaises(exposed_ports) == exposed_ports # << >>

\* ConfigureProxmoxContainerExposePortsHandler.execute lines 772-816 with
\* set_container_forwarding_rules lines 664-731, whose reads and writes are all under
\* the lock
ExposePorts(device_id, raw_ports, c) ==
    /\ forwarding.updates + Cardinality(Pending) < MaxUpdates
    /\ LET invalid == ValidatePorts(raw_ports)
           ports == normalized_ports(raw_ports)
           merged == preserved_rules(forwarding.files.rules, device_id, Domain)
                         \o NewRules(device_id, ports, Domain)
           exposed == ExposedPorts(device_id, ports, Domain)
           synced == IF c.fault = "sync" THEN forwarding.files
                     ELSE [forwarding.files EXCEPT !.containers[device_id] = exposed]
           done == IF invalid # None
                   THEN [files |-> forwarding.files,
                         error |-> [kind |-> "ValueError", details |-> invalid]]
                   ELSE IF c.fault = "sync" /\ SyncFailureRaises(exposed)
                   THEN [files |-> forwarding.files,
                         error |-> [kind |-> "RuntimeError", details |-> "pct push"]]
                   ELSE _apply_and_persist_forwarding_rules(synced, merged,
                            IF c.fault = "sync" THEN "none" ELSE c.fault, c.output)
       IN /\ c.fault = "dns" => invalid = None /\ merged # << >>
          /\ c.fault # "none" => invalid = None
          /\ ForwardingStep(
               [forwarding EXCEPT
                  !.files = done.files,
                  !.updates = @ + 1,
                  !.last = [command |-> "configure_proxmox_container_expose_ports",
                            device_id |-> device_id, expose_ports |-> raw_ports,
                            rules |-> merged, from_storage |-> TRUE,
                            stored |-> forwarding.files.rules,
                            exposed_ports |-> exposed,
                            before |-> forwarding.files, after |-> done.files,
                            error |-> done.error, fault |-> c.fault]])

NextForwarding ==
    \/ \E t \in Tids, from_storage \in BOOLEAN, user_rules \in UserRuleLists :
          ConfigureBegin(t, from_storage, user_rules)
    \/ \E t \in Tids, c \in FaultCases : ConfigureApply(t, c)
    \/ \E device_id \in Devices, raw_ports \in PortLists, c \in FaultCases :
          ExposePorts(device_id, raw_ports, c)

SpecForwarding == Init /\ [][NextForwarding]_vars

(* ------------------------------------------- exposed services in the container *)

MaxTextLen == 3

MaxInjections == 2

\* lines 58-59; in a text each marker is one character
MANAGED_BLOCK_BEGIN == "# >>> PORTACODE_EXPOSED_SERVICES >>>"

MANAGED_BLOCK_END == "# <<< PORTACODE_EXPOSED_SERVICES <<<"

\* the texts of at most n characters over an alphabet
Texts(alphabet, n) == UNION {[1..k -> alphabet] : k \in 0..n}

\* what a shell hook file can hold before the agent touches it
HookTexts == Texts({MANAGED_BLOCK_BEGIN, MANAGED_BLOCK_END, "\n", " ", "x"}, MaxTextLen)

\* what /etc/environment can hold before the agent touches it
EnvironmentTexts == Texts({"\n", " ", "#", "=", "PORTACODE_EXPOSED_PORTS", "x"}, MaxTextLen)

isspace(c) == c \in {" ", "\n"}

\* str.rstrip()
RECURSIVE rstrip(_)
rstrip(text) ==
    IF text # << >> /\ isspace(text[Len(text)]) THEN rstrip(SubSeq(text, 1, Len(text) - 1))
    ELSE text

\* str.lstrip()
RECURSIVE lstrip(_)
lstrip(text) == IF text # << >> /\ isspace(Head(text)) THEN lstrip(Tail(text)) ELSE text

\* sep.join(parts)
RECURSIVE join(_, _)
join(sep, parts) ==
    IF parts = << >> THEN << >>
    ELSE IF Len(parts) = 1 THEN parts[1]
    ELSE parts[1] \o sep \o join(sep, Tail(parts))

\* str.splitlines() for texts whose only line boundary is "\n"
RECURSIVE splitlines(_)
splitlines(text) ==
    IF text = << >> THEN << >>
    ELSE IF \E i \in DOMAIN text : text[i] = "\n"
    THEN LET i == CHOOSE i \in DOMAIN text :
                      text[i] = "\n" /\ \A j \in 1..(i - 1) : text[j] # "\n"
         IN <<SubSeq(text, 1, i - 1)>> \o splitlines(SubSeq(text, i + 1, Len(text)))
    ELSE <<text>>

\* _build_shell_hook_block, lines 516-526
_build_shell_hook_block ==
    <<MANAGED_BLOCK_BEGIN, "\n",
      "# Managed by portacode: loads exposure env vars for shell sessions.", "\n",
      "if [ -f /etc/portacode/exposed_services.env ]; then", "\n",
      " ", " ", "set -a", "\n",
      " ", " ", ". /etc/portacode/exposed_services.env", "\n",
      " ", " ", "set +a", "\n",
      "fi", "\n",
      MANAGED_BLOCK_END, "\n">>

\* "^" of a multi-line pattern holds at position i
LineStart(text, i) == i = 1 \/ text[i - 1] = "\n"

\* the position of the begin marker that "^\s*BEGIN\n" matches from position i, or 0
BeginAt(text, i) ==
    IF /\ LineStart(text, i)
       /\ \E b \in i..(Len(text) - 1) :
             /\ \A k \in i..(b - 1) : isspace(text[k])
             /\ text[b] = MANAGED_BLOCK_BEGIN
             /\ text[b + 1] = "\n"
    THEN CHOOSE b \in i..(Len(text) - 1) :
             (\A k \in i..(b - 1) : isspace(text[k])) /\ text[b] = MANAGED_BLOCK_BEGIN
    ELSE 0

\* the end markers that ".*?^\s*END" can reach after the begin marker at b
EndsFor(text, b) ==
    {e \in (b + 2)..Len(text) :
        /\ text[e] = MANAGED_BLOCK_END
        /\ \E j \in (b + 2)..e : LineStart(text, j) /\ \A k \in j..(e - 1) : isspace(text[k])}

\* re.sub(pattern, "", source) from position i on: the leftmost match, the shortest
\* ".*?", the optional "\n" taken when it is there
RECURSIVE SubPattern(_, _)
SubPattern(text, i) ==
    IF i > Len(text) THEN << >>
    ELSE LET b == BeginAt(text, i)
             ends == IF b = 0 THEN {} ELSE EndsFor(text, b)
         IN IF ends = {} THEN <<text[i]>> \o SubPattern(text, i + 1)
            ELSE LET e == CHOOSE e \in ends : \A o \in ends : e <= o
                     after == IF e < Len(text) /\ text[e + 1] = "\n" THEN e + 2 ELSE e + 1
                 IN SubPattern(text, after)

\* _strip_managed_block, lines 529-535
_strip_managed_block(text) ==
    LET cleaned == SubPattern(text, 1) IN
    rstrip(cleaned) \o (IF lstrip(cleaned) # << >> THEN <<"\n">> ELSE << >>)

\* _upsert_managed_shell_hook, lines 538-542: the text pushed for the text read
_upsert_managed_shell_hook(existing_text) ==
    _strip_managed_block(existing_text) \o _build_shell_hook_block

\* the tables injected: the exposure records of device 7 for ports [80] and [80, 443]
ExposureTables ==
    <<ExposedPorts(<<"7">>, <<80>>, Domain), ExposedPorts(<<"7">>, <<80, 443>>, Domain)>>

\* json.dumps(exposed_ports, separators=(",", ":")), line 465; every quote is a character
json_dumps(exposed_ports) ==
    <<"[">> \o join(<<",">>, [i \in DOMAIN exposed_ports |->
        <<"{", "\"", "port", "\"", ":">> \o str(exposed_ports[i].port)
           \o <<",", "\"", "hostname", "\"", ":", "\"">> \o exposed_ports[i].hostname
           \o <<"\"", ",", "\"", "url", "\"", ":", "\"">> \o exposed_ports[i].url
           \o <<"\"", "}">>])
       \o <<"]">>

\* sorted(env_map.keys()), line 497
ManagedKeys ==
    <<"PORTACODE_EXPOSED_PORTS", "PORTACODE_EXPOSED_SERVICES_JSON",
      "PORTACODE_PRIMARY_PUBLIC_HOST", "PORTACODE_PRIMARY_PUBLIC_URL",
      "PORTACODE_PUBLIC_HOSTS", "PORTACODE_PUBLIC_URLS">>

\* _build_exposed_services_env_map, lines 459-473
_build_exposed_services_env_map(exposed_ports) ==
    LET hosts == [i \in DOMAIN exposed_ports |-> exposed_ports[i].hostname]
        urls == [i \in DOMAIN exposed_ports |-> exposed_ports[i].url]
        ports == [i \in DOMAIN exposed_ports |-> str(exposed_ports[i].port)]
    IN [PORTACODE_EXPOSED_SERVICES_JSON |-> json_dumps(exposed_ports),
        PORTACODE_EXPOSED_PORTS |-> join(<<",">>, ports),
        PORTACODE_PUBLIC_HOSTS |-> join(<<",">>, hosts),
        PORTACODE_PUBLIC_URLS |-> join(<<",">>, urls),
        PORTACODE_PRIMARY_PUBLIC_URL |-> IF urls = << >> THEN << >> ELSE urls[1],
        PORTACODE_PRIMARY_PUBLIC_HOST |-> IF hosts = << >> THEN << >> ELSE hosts[1]]

\* _format_etc_environment_value, lines 476-478
RECURSIVE escaped(_)
escaped(value) ==
    IF value = << >> THEN << >>
    ELSE (IF Head(value) \in {"\\", "\""} THEN <<"\\", Head(value)>> ELSE <<Head(value)>>)
            \o escaped(Tail(value))

_format_etc_environment_value(value) == <<"\"">> \o escaped(value) \o <<"\"">>

\* stripped.split("=", 1)[0].strip(), line 492
LineKey(stripped) ==
    LET head == IF \E i \in DOMAIN stripped : stripped[i] = "="
                THEN SubSeq(stripped, 1, (CHOOSE i \in DOMAIN stripped :
                          stripped[i] = "=" /\ \A j \in 1..(i - 1) : stripped[j] # "=") - 1)
                ELSE stripped
    IN rstrip(lstrip(head))

\* lines 484-495: the lines of the existing text that are kept
RECURSIVE kept_lines(_, _)
kept_lines(lines, env_map) ==
    IF lines = << >> THEN << >>
    ELSE LET raw_line == Head(lines)
             stripped == rstrip(lstrip(raw_line))
             keep == \/ stripped = << >>
                     \/ Head(stripped) = "#"
                     \/ ~(\E k \in DOMAIN env_map : LineKey(stripped) = <<k>>)
         IN (IF keep THEN <<raw_line>> ELSE << >>) \o kept_lines(Tail(lines), env_map)

\* _merge_system_environment, lines 481-501
_merge_system_environment(existing_text, env_map) ==
    LET managed == [i \in DOMAIN ManagedKeys |->
                       <<ManagedKeys[i], "=">> \o _format_etc_environment_value(env_map[ManagedKeys[i]])]
    IN rstrip(join(<<"\n">>, kept_lines(splitlines(existing_text), env_map) \o managed)) \o <<"\n">>

ContainerStep(c) ==
    /\ container' = c
    /\ UNCHANGED <<state, disk, runners, runner_task, current_process, current_process_task_id,
                   waiters, now, ops, restarts, bootIndex, seen, lastOp, events, probe, conn,
                   router, forwarding, storage, infraVars>>

\* what the container's owner left in a shell hook file before the first injection
PriorHook(text) ==
    /\ container.injections = 0
    /\ container.hook = << >>
    /\ container.environment = << >>
    /\ text # << >>
    /\ ContainerStep([container EXCEPT !.hook = text])

\* what the container's owner left in /etc/environment before the first injection
PriorEnvironment(text) ==
    /\ container.injections = 0
    /\ container.hook = << >>
    /\ container.environment = << >>
    /\ text # << >>
    /\ ContainerStep([container EXCEPT !.environment = text])

\* _sync_exposed_services_into_container, lines 608-642, for one shell hook path: the
\* hook is upserted (631-632) and /etc/environment merged (634-637) from what cat returns
SyncExposedServices(table) ==
    /\ container.injections < MaxInjections
    /\ ContainerStep(
          [hook |-> _upsert_managed_shell_hook(container.hook),
           environment |-> _merge_system_environment(container.environment,
                               _build_exposed_services_env_map(ExposureTables[table])),
           table |-> table,
           injections |-> container.injections + 1,
           previous |-> [hook |-> container.hook, environment |-> container.environment,
                         table |-> container.table]])

NextContainer ==
    \/ \E text \in HookTexts : PriorHook(text)
    \/ \E text \in EnvironmentTexts : PriorEnvironment(text)
    \/ \E table \in DOMAIN ExposureTables : SyncExposedServices(table)

SpecContainer == Init /\ [][NextContainer]_vars

(* ------------------------------------------------------ persisted files *)

MaxWrites == 2

\* the documents written, each in two pieces
Contents == {<<"a1", "a2">>, <<"b1", "b2">>}

StorageStep(st) ==
    /\ storage' = st
    /\ UNCHANGED <<state, disk, runners, runner_task, current_process, current_process_task_id,
                   waiters, now, ops, restarts, bootIndex, seen, lastOp, events, probe, conn,
                   router, forwarding, container, infraVars>>

\* the content of a file as someone who opens it now reads it, with the complete
\* contents before and after the write that is or was last under way
Observation(kind, path, content) ==
    [kind |-> kind, path |-> path, content |-> content,
     old |-> IF storage.write.path = path THEN storage.write.old
             ELSE storage.files[path].replaced,
     new |-> IF storage.write.path = path THEN storage.write.new
             ELSE storage.files[path].content]

\* the open() of a write: Path.write_text opens the file itself for writing, which
\* empties it (privileged.py 83, proxmox_infra.py 430); the other writers open a
\* temporary file next to it (forwarding_state.py 33-34, automation_v2_handlers.py 144-146)
WriteOpen(path, new) ==
    /\ storage.write.pc = "idle"
    /\ storage.writes < MaxWrites
    /\ new # storage.files[path].content
    /\ StorageStep(
          [storage EXCEPT
             !.write = [path |-> path, pc |-> "open", old |-> storage.files[path].content,
                        new |-> new, tmp |-> << >>, synced |-> FALSE],
             !.files[path] = IF WriteMethod[path] = "in_place"
                             THEN [content |-> << >>, replaced |-> @.content, on_disk |-> FALSE]
                             ELSE @])

\* one write() of the next piece, into the file or into the temporary file
WriteChunk ==
    LET path == storage.write.path
        into == IF WriteMethod[path] = "in_place" THEN storage.files[path].content
                ELSE storage.write.tmp
    IN /\ storage.write.pc = "open"
       /\ Len(into) < Len(storage.write.new)
       /\ StorageStep(
             IF WriteMethod[path] = "in_place"
             THEN [storage EXCEPT !.files[path].content = @ \o <<storage.write.new[Len(@) + 1]>>]
             ELSE [storage EXCEPT !.write.tmp = @ \o <<storage.write.new[Len(@) + 1]>>])

\* os.fsync of the temporary file, automation_v2_handlers.py 147-149
WriteSync ==
    /\ storage.write.pc = "open"
    /\ WriteMethod[storage.write.path] = "tmp_fsync_replace"
    /\ storage.write.tmp = storage.write.new
    /\ StorageStep([storage EXCEPT !.write.pc = "synced", !.write.synced = TRUE])

\* os.replace of the file by the temporary file, automation_v2_handlers.py 150 and
\* forwarding_state.py 35
WriteReplace ==
    LET path == storage.write.path IN
    /\ \/ storage.write.pc = "synced"
       \/ storage.write.pc = "open" /\ WriteMethod[path] = "tmp_replace"
                                    /\ storage.write.tmp = storage.write.new
    /\ StorageStep(
          [storage EXCEPT
             !.files[path] = [content |-> storage.write.tmp, replaced |-> @.content,
                              on_disk |-> storage.write.synced],
             !.write = NoWrite,
             !.writes = @ + 1])

\* the close() that ends Path.write_text
WriteClose ==
    LET path == storage.write.path IN
    /\ storage.write.pc = "open"
    /\ WriteMethod[path] = "in_place"
    /\ storage.files[path].content = storage.write.new
    /\ StorageStep([storage EXCEPT !.write = NoWrite, !.writes = @ + 1])

\* another thread or process reads a file
Read(path) ==
    /\ path \in Paths
    /\ StorageStep([storage EXCEPT !.last = Observation("read", path, storage.files[path].content)])

\* the agent is killed during a write; the file is read afterwards
Crash ==
    LET path == storage.write.path IN
    /\ storage.write.pc # "idle"
    /\ StorageStep(
          [storage EXCEPT
             !.last = Observation("crash", path, storage.files[path].content),
             !.write = NoWrite,
             !.writes = @ + 1])

\* the machine loses power: of a file whose content was never synced, any leading part
\* may be what reached the disk; the file is read after the restart
PowerLoss(path, reached) ==
    LET survived == SubSeq(storage.files[path].content, 1, reached) IN
    /\ ~storage.files[path].on_disk
    /\ reached \in 0..Len(storage.files[path].content)
    /\ StorageStep(
          [storage EXCEPT
             !.last = Observation("power", path, survived),
             !.files[path] = [content |-> survived, replaced |-> @.replaced, on_disk |-> TRUE],
             !.write = NoWrite,
             !.writes = IF storage.write.pc # "idle" THEN @ + 1 ELSE @])

NextStorage ==
    \/ \E path \in Paths, new \in Contents : WriteOpen(path, new)
    \/ WriteChunk
    \/ WriteSync
    \/ WriteReplace
    \/ WriteClose
    \/ \E path \in Paths : Read(path)
    \/ Crash
    \/ \E path \in Paths, reached \in 0..2 : PowerLoss(path, reached)

SpecStorage == Init /\ [][NextStorage]_vars

(* ---------------------------------------------------------------- claims *)

ActiveTasks(st) == {t \in DOMAIN st.tasks : st.tasks[t].status \in NonTerminal}

Executing(r) == runners[r].pc \in {"spawning", "waiting", "probing", "reaped"}

\* C1: at most one task has status pending or running.
AtMostOneActiveTask == Cardinality(ActiveTasks(state)) <= 1

StateSeqMonotone ==
    [][/\ \A t \in DOMAIN state.tasks :
            /\ t \in DOMAIN state'.tasks
            /\ state'.tasks[t].state_seq >= state.tasks[t].state_seq
       /\ (lastOp'.op \in {"start", "cancel"} /\ lastOp'.res = "ok")
            => SnapshotSeq(state', lastOp'.task) > SnapshotSeq(state, lastOp'.task)
       /\ SnapshotSeq(state', seen'.task) >= seen'.seq
      ]_vars

\* C3 witness: a client holds a snapshot with state_seq 2 or more of a task that has
\* moved on since.
SnapshotOvertaken ==
    /\ seen.seq >= 2
    /\ SnapshotSeq(state, seen.task) > seen.seq

\* C4: a start() of a task while another task is pending or running is refused with the
\* conflict error and changes neither the state, nor the file, nor the runners.
StartRefusedWhileOtherActive ==
    [][(/\ lastOp'.op = "start"
        /\ lastOp'.res # "invalid"
        /\ ActiveTasks(state) \ {lastOp'.task} # {})
            => /\ lastOp'.res = "conflict"
               /\ state' = state
               /\ disk' = disk
               /\ runners' = runners
      ]_vars

\* C5: a start() that repeats the start() just made (same task id, same instructions,
\* nothing in between) leaves the task as it was but for state_seq, which is one higher,
\* and leaves at most one live runner; a start() of a stored pending or running task
\* while no runner is live creates exactly one.
StartIdempotent ==
    [][(lastOp'.op = "start" /\ lastOp'.res = "ok") =>
          LET t == lastOp'.task IN
          /\ lastOp'.rep =>
               /\ state'.tasks[t] = [state.tasks[t] EXCEPT !.state_seq = @ + 1]
               /\ Cardinality({r \in DOMAIN runners' : runners'[r].pc # "done"}) <= 1
          /\ (/\ HasTask(state, t)
              /\ state.tasks[t].status \in NonTerminal
              /\ \A r \in DOMAIN runners : runners[r].pc = "done")
               => Cardinality(LiveRunners(runners', t)) = 1
      ]_vars

\* C5 witness: the second of two identical start() calls has returned, and the task
\* has a live runner.
StartedTwice ==
    /\ lastOp.op = "start"
    /\ lastOp.rep
    /\ LiveRunners(runners, lastOp.task) # {}

\* C6: cancel() of a pending or running task makes it cancelled at once; a cancelled
\* task stays cancelled; and a runner of a task whose cancel_requested is set ends at
\* its next critical section, leaving the task cancelled and no task active.
CancelIsFinal ==
    [][\A t \in DOMAIN state.tasks :
         /\ state.tasks[t].status = "cancelled" => state'.tasks[t].status = "cancelled"
         /\ (lastOp'.op = "cancel" /\ lastOp'.task = t /\ state.tasks[t].status \in NonTerminal)
              => state'.tasks[t].status = "cancelled"
         /\ \A r \in DOMAIN runners :
              (/\ r \in DOMAIN runners'
               /\ runners[r].task = t
               /\ runners[r].pc \in {"ready", "reaped"}
               /\ runners'[r] # runners[r]
               /\ state.tasks[t].cancel_requested)
                 => /\ runners'[r].pc = "done"
                    /\ state'.tasks[t].status = "cancelled"
                    /\ state'.active_task_id = NoTask
      ]_vars

\* C6 witness: a task was cancelled during a step that then ended with return code 0,
\* and its runner has stopped.
CancelledDespiteSuccess ==
    \E t \in DOMAIN state.tasks :
        /\ state.tasks[t].status = "cancelled"
        /\ \E i \in DOMAIN state.tasks[t].steps : state.tasks[t].steps[i].status = "success"
        /\ LiveRunners(runners, t) = {}
        /\ state.active_task_id = NoTask

\* C7: cancel(T) sends a terminate request to every live subprocess of T, and to no
\* subprocess of another task.
CancelTerminatesLiveProcess ==
    [][(lastOp'.op = "cancel" /\ lastOp'.res = "ok") =>
          \A r \in DOMAIN runners :
              runners[r].proc = "live" =>
                  IF runners[r].task = lastOp'.task
                  THEN runners'[r].term
                  ELSE runners'[r].term = runners[r].term
      ]_vars

\* C8: cancel() of a task that is success, failed or cancelled changes nothing of the
\* state but that task's cancel_requested, now true, and its state_seq, one higher.
CancelTerminalFrame ==
    [][(lastOp'.op = "cancel" /\ lastOp'.res = "ok"
        /\ StatusOf(state, lastOp'.task) \in Terminal)
            => state' = SetTask(state, lastOp'.task,
                                [state.tasks[lastOp'.task] EXCEPT !.cancel_requested = TRUE,
                                                                  !.state_seq = @ + 1])
      ]_vars

\* C8 witness: cancel() has returned for a task that had ended by itself.
CancelledAfterEnd ==
    /\ lastOp.op = "cancel"
    /\ lastOp.res = "ok"
    /\ StatusOf(state, lastOp.task) \in {"success", "failed"}
    /\ state.tasks[lastOp.task].cancel_requested

\* C9: once a task is success, failed or cancelled, its status, steps,
\* current_step_index, current_step_status, completed_at and last_error never change.
TerminalTaskFrozen ==
    [][\A t \in DOMAIN state.tasks :
         state.tasks[t].status \in Terminal =>
             /\ state'.tasks[t].status = state.tasks[t].status
             /\ state'.tasks[t].steps = state.tasks[t].steps
             /\ state'.tasks[t].current_step_index = state.tasks[t].current_step_index
             /\ state'.tasks[t].current_step_status = state.tasks[t].current_step_status
             /\ state'.tasks[t].completed_at = state.tasks[t].completed_at
             /\ state'.tasks[t].last_error = state.tasks[t].last_error
      ]_vars

StartsStep(r) ==
    /\ r \in DOMAIN runners
    /\ r \in DOMAIN runners'
    /\ runners[r].pc \in {"ready", "reaped"}
    /\ runners'[r].pc \in {"spawning", "probing"}

\* runner r, whose step has ended by a non-zero exit or by its timeout, records the step
RecordsFailure(r) ==
    /\ r \in DOMAIN runners
    /\ r \in DOMAIN runners'
    /\ runners[r].pc = "reaped"
    /\ runners[r].timed_out \/ runners[r].returncode # 0
    /\ runners'[r] # runners[r]

\* C12, as claimed: a step with index j is started only when every step before it is
\* recorded in steps with status success, and a runner that records a failed step leaves
\* its task failed with last_error set, no task active, and stops.
StepsInOrderFailStops ==
    [][\A r \in DOMAIN runners' :
         /\ StartsStep(r) =>
               LET task == state'.tasks[runners'[r].task] IN
               \A k \in 1..runners'[r].step_index :
                   Len(task.steps) >= k /\ task.steps[k].status = "success"
         /\ RecordsFailure(r) =>
               /\ state'.tasks[runners[r].task].status = "failed"
               /\ state'.tasks[runners[r].task].last_error # None
               /\ state'.active_task_id = NoTask
               /\ runners'[r].pc = "done"
      ]_vars

\* C12, amended: at most one step of a task runs at a time; a step with index j is started
\* only when every step before it that has a command or a wait_for target is recorded
\* with status success (an instruction with neither is skipped and has no result); and a
\* runner that records a failed step stops with no task active, leaving its task failed
\* with last_error set, or cancelled when cancel was requested during the step.
StepsInOrder ==
    [][/\ \A t \in DOMAIN state'.tasks :
            Cardinality({r \in DOMAIN runners' :
                            /\ runners'[r].task = t
                            /\ runners'[r].pc \in {"spawning", "waiting", "probing", "reaped"}}) <= 1
       /\ \A r \in DOMAIN runners' :
            /\ StartsStep(r) =>
                  LET task == state'.tasks[runners'[r].task] IN
                  /\ runners'[r].step_index = task.current_step_index
                  /\ \A k \in 1..runners'[r].step_index :
                       IF task.instructions[k] = "noop"
                       THEN Len(task.steps) < k \/ task.steps[k].status = "pending"
                       ELSE Len(task.steps) >= k /\ task.steps[k].status = "success"
            /\ RecordsFailure(r) =>
                  /\ runners'[r].pc = "done"
                  /\ state'.active_task_id = NoTask
                  /\ IF state.tasks[runners[r].task].cancel_requested
                     THEN state'.tasks[runners[r].task].status = "cancelled"
                     ELSE /\ state'.tasks[runners[r].task].status = "failed"
                          /\ state'.tasks[runners[r].task].last_error # None
      ]_vars

\* C12 witness: a task of two steps has failed at its second step, after its first step
\* was recorded with status success; its runner has stopped.
FailedAtSecondStep ==
    \E t \in DOMAIN state.tasks :
        /\ state.tasks[t].status = "failed"
        /\ state.tasks[t].last_error # None
        /\ Len(state.tasks[t].steps) = 2
        /\ state.tasks[t].steps[1].status = "success"
        /\ state.tasks[t].steps[2].status = "failed"
        /\ LiveRunners(runners, t) = {}

\* str() of the automation_task_id an event carries
PayloadText(payload) == IF payload.isint THEN str(payload.int) ELSE payload.text

\* C13: a runner leaves a step it executed (to record it) only when exactly one
\* terminal_exec_result event was sent for the step; no step ever has two; and no event
\* of a step is sent after the step's terminal_exec_result.
OneResultPerStep ==
    [][/\ \A r \in DOMAIN runners :
            (/\ Executing(r)
             /\ \/ runners'[r].pc \notin {"spawning", "waiting", "probing", "reaped"}
                \/ runners'[r].step_index # runners[r].step_index)
                => /\ Cardinality(EventsOf(events, "terminal_exec_result", r,
                                           runners[r].step_index)) = 1
                   /\ events' = events
       /\ \A j \in DOMAIN events', k \in DOMAIN events' :
            (/\ j < k
             /\ events'[j].event = "terminal_exec_result"
             /\ events'[k].runner = events'[j].runner
             /\ events'[k].automation_step_index = events'[j].automation_step_index)
                => FALSE
      ]_vars

\* C13 witness: a shell step of a task that was cancelled during the step has ended; an
\* output event and then the result event were sent for it.
ResultAfterCancel ==
    \E r \in DOMAIN runners :
        /\ runners[r].pc = "reaped"
        /\ runners[r].kind = "shell"
        /\ state.tasks[runners[r].task].status = "cancelled"
        /\ EventsOf(events, "terminal_exec_output", r, runners[r].step_index) # {}
        /\ Cardinality(EventsOf(events, "terminal_exec_result", r, runners[r].step_index)) = 1

\* C14: every event sent carries the step index its runner is executing and an
\* automation_task_id that reads as the id of the task the runner is executing.
EventTagsMatch ==
    [][\A k \in (DOMAIN events') \ (DOMAIN events) :
         LET e == events'[k] IN
         /\ Executing(e.runner)
         /\ e.automation_step_index = runners[e.runner].step_index
         /\ PayloadText(e.automation_task_id) = TaskKey(runners[e.runner].task)
      ]_vars

\* C15: a runner ends only with its task in a terminal status.
RunnerEndsRecorded ==
    [][\A r \in (DOMAIN runners) \cap (DOMAIN runners') :
         (runners[r].pc # "done" /\ runners'[r].pc = "done")
            => StatusOf(state', runners[r].task) \in Terminal
      ]_vars

\* C16: a wait_for step whose target does not start with http:// or https:// ends
\* without an HTTP request, and what is recorded for it is the validation error, not a
\* step timeout.
InvalidTargetIsValidationError ==
    (probe.pc = "returned" /\ ~_resolve_wait_for_url(probe.target).ok)
        => /\ probe.requests = 0
           /\ ~probe.timed_out
           /\ RecordedProbe.steps[1].timed_out = FALSE
           /\ RecordedProbe.last_error # "step timed out"

\* C17: on a connection, frames are handed to the dispatcher only after the gateway's
\* reply to the public-key frame on that connection was exactly "ok"; after any other
\* reply the session has failed with nothing dispatched.
DispatchOnlyAfterOk ==
    /\ conn.pc = "listening" => conn.response = "ok" /\ conn.websocket = "open"
    /\ conn.dispatched > 0 => conn.response = "ok"
    /\ conn.response \notin {None, "ok"} =>
           conn.dispatched = 0 /\ conn.websocket = "closed" /\ conn.rejected

DispatchedOnSecondConnection ==
    conn.attempts = 2 /\ conn.dispatched = MaxFrames /\ conn.response = "ok"

\* C18: once the gateway has rejected authentication and the supervisor's task has
\* ended on it, the process has exited with code 86; no connection attempt follows the
\* rejection.
AuthRejectedExits86 ==
    /\ conn.rejected => conn.pc \notin {"dialing", "awaiting_reply", "listening"}
    /\ (conn.rejected /\ conn.pc = "failed") => conn.exit_code = AUTH_REJECTED_EXIT_CODE
    /\ (conn.rejected /\ conn.exit_code # Running) => conn.exit_code = AUTH_REJECTED_EXIT_CODE

\* C19: the reconnect loop ends only after the stop signal or an authentication
\* rejection; every other failure leads back to the dial.
LoopEndsOnlyOnStop ==
    conn.pc \in {"done", "failed"} => conn.stop_event \/ conn.rejected

\* C20: once the stop signal is raised the supervisor closes the socket and its task
\* terminates, wherever it was waiting.
StopTerminates ==
    conn.stop_event ~> (conn.pc \in {"done", "failed"} /\ conn.websocket # "open")

\* the commands of one kind that were handled
Handled(command) ==
    {i \in DOMAIN router.handled : router.handled[i].command = command}

\* C21: the response sent for a command whose handler returned one carries the
\* request_id the handler set, else the request's; when the request carried a
\* source_client_session, its client_sessions is exactly that session.
ResponseTagged ==
    \A i \in Handled("file_apply_diff") :
        LET h == router.handled[i] IN
        ~h.outcome.raised =>
            /\ Len(h.frames) = 1
            /\ h.frames[1].success
            /\ h.frames[1].request_id =
                   (IF h.outcome.request_id # Absent THEN h.outcome.request_id
                    ELSE h.message.request_id)
            /\ h.message.source_client_session \in Sessions =>
                   h.frames[1].client_sessions = <<h.message.source_client_session>>

HandlerKeptItsRequestId ==
    \E i \in Handled("file_apply_diff") :
        LET h == router.handled[i] IN
        /\ ~h.outcome.raised
        /\ h.message.request_id = "r1"
        /\ h.outcome.request_id = "h1"
        /\ h.message.source_client_session = "s1"
        /\ h.outcome.client_sessions = <<"s9">>

\* C22: for a command whose handler raised, exactly one frame is sent, an error
\* response with success false, the error's text, the request's request_id if it has
\* one, addressed to the source session if it has one; handle() returns normally and
\* the process goes on handling commands.
OneErrorResponse ==
    \A i \in Handled("file_apply_diff") :
        LET h == router.handled[i] IN
        h.outcome.raised =>
            /\ Len(h.frames) = 1
            /\ ~h.frames[1].success
            /\ h.frames[1].error = h.outcome.error
            /\ h.frames[1].request_id = h.message.request_id
            /\ h.message.source_client_session \in Sessions =>
                   h.frames[1].client_sessions = <<h.message.source_client_session>>
            /\ h.returned

ErrorThenNextCommand ==
    /\ Len(router.handled) = 2
    /\ router.handled[1].command = "file_apply_diff"
    /\ router.handled[1].outcome.raised
    /\ router.handled[1].message.request_id = "r1"
    /\ router.handled[1].message.source_client_session = "s1"
    /\ router.handled[2].command = "file_apply_diff"
    /\ ~router.handled[2].outcome.raised

\* C30 as claimed: after a successful install the success response is sent and the
\* process exits with code 42; after a failed one a failure response is returned and
\* the process goes on.
UpdateExits42 ==
    \A i \in Handled("update_portacode_cli") :
        LET h == router.handled[i] IN
        IF h.env.install = "ok"
        THEN /\ Len(h.frames) = 1 /\ h.frames[1].success
             /\ i = Len(router.handled)
             /\ router.exit_code = RESTART_EXIT_CODE
        ELSE /\ h.frames = << >>
             /\ Len(h.response) = 1 /\ ~h.response[1].success
             /\ h.returned

\* C30: after a successful install the success response is sent first; the process
\* then exits with code 42 when systemd supervises it and it has no terminal, or when
\* the service manager cannot restart the service, and otherwise has asked the service
\* manager for the restart and goes on without a response of the handler.  After a
\* failed install a failure response is returned and the process goes on.
UpdateRestarts ==
    \A i \in Handled("update_portacode_cli") :
        LET h == router.handled[i] IN
        IF h.env.install = "ok"
        THEN /\ Len(h.frames) = 1 /\ h.frames[1].success
             /\ h.response = << >>
             /\ IF (h.env.systemd /\ ~h.env.tty) \/ h.env.service = "raises"
                THEN /\ i = Len(router.handled)
                     /\ router.exit_code = RESTART_EXIT_CODE
                     /\ ~h.returned
                ELSE h.returned
        ELSE /\ h.frames = << >>
             /\ Len(h.response) = 1 /\ ~h.response[1].success
             /\ h.returned

RestartLeftToServiceManager ==
    \E i \in Handled("update_portacode_cli") :
        LET h == router.handled[i] IN
        /\ h.env.install = "ok" /\ ~h.env.systemd /\ h.env.service = "ok"
        /\ h.returned
        /\ router.exit_code = Running

\* the hostnames of a list of rules or ingress entries, in order
Hostnames(list) == [i \in DOMAIN list |-> list[i].hostname]

\* C23: after a successful forwarding update the rules file and the proxy config hold
\* the same hostnames in the same order.
RulesAndConfigInSync ==
    (forwarding.updates > 0 /\ forwarding.last.error = NoError)
        => Hostnames(forwarding.files.rules) = Hostnames(forwarding.files.config)

KeptAndExposedInSync ==
    /\ forwarding.last.command = "configure_proxmox_container_expose_ports"
    /\ forwarding.last.error = NoError
    /\ Len(forwarding.files.rules) = 3
    /\ forwarding.files.rules[1].parsed.type = "url"
    /\ Len(forwarding.files.config) = 3

\* C24: every update applied under the lock was computed from the stored rules as they
\* are when it is applied, so that concurrent requests have the effect of running one
\* after another.
NoStaleUpdate ==
    (forwarding.updates > 0 /\ forwarding.last.from_storage)
        => \/ forwarding.last.command = "configure_proxmox_container_expose_ports"
           \/ forwarding.last.rules = forwarding.last.stored

\* C25: when the DNS registration fails, the error raised carries what the command
\* printed, and the rules file is as it was before the request.
DnsFailureKeepsRules ==
    \A output \in DnsOutputs :
        (forwarding.updates > 0 /\ forwarding.last.error = DnsError(output)
           /\ (output.stderr # "" \/ output.stdout # ""))
            => /\ forwarding.last.error.details \in {output.stderr, output.stdout}
               /\ forwarding.last.error.details # ""
               /\ forwarding.files.rules = forwarding.last.before.rules

DnsFailedWithRulesStored ==
    /\ forwarding.last.error.details = "record exists"
    /\ forwarding.last.before.rules # << >>
    /\ forwarding.last.rules # forwarding.last.before.rules

\* the last request was an expose-ports request
LastExposed == forwarding.last.command = "configure_proxmox_container_expose_ports"

\* what the last request left in the files
LastChangedNothing == forwarding.files = forwarding.last.before

\* C26 as claimed: an expose_ports list longer than 3, or with a port outside
\* [1, 65535], is refused with a validation error and nothing is changed.
LongListRefused ==
    LET raw == forwarding.last.expose_ports IN
    (LastExposed /\ (Len(raw) > 3 \/ \E i \in DOMAIN raw : raw[i] < 1 \/ raw[i] > 65535))
        => forwarding.last.error.kind = "ValueError" /\ LastChangedNothing

\* C26: an expose_ports list with more than 3 different ports, or with a port outside
\* [1, 65535], is refused with a validation error and nothing is changed.
ManyPortsRefused ==
    LET raw == forwarding.last.expose_ports IN
    (LastExposed /\ (\/ Cardinality({raw[i] : i \in DOMAIN raw}) > 3
                     \/ \E i \in DOMAIN raw : raw[i] < 1 \/ raw[i] > 65535))
        => forwarding.last.error.kind = "ValueError" /\ LastChangedNothing

FourPortsRefused ==
    /\ LastExposed
    /\ forwarding.last.expose_ports = <<80, 443, 8080, 22>>
    /\ forwarding.last.error.kind = "ValueError"
    /\ forwarding.last.before.rules # << >>

\* the hostname and destination of the rule for a port of device d at a position
ExposureRule(d, position, port) ==
    [hostname |-> (IF position = 1 THEN d ELSE str(position - 1) \o <<"_">> \o d)
                     \o <<".">> \o Domain,
     destination |-> <<"http://[">> \o d \o <<"]:">> \o str(port)]

\* a stored rule is one of device d: it forwards to d, or its hostname is one of d's
TargetsDevice(rule, d) ==
    \/ /\ Len(rule.destination) > Len(d) + 2
       /\ SubSeq(rule.destination, 1, Len(d) + 2) = <<"http://[">> \o d \o <<"]:">>
    \/ \E position \in 1..4 : rule.hostname = ExposureRule(d, position, 80).hostname

\* the rules of a list that are not of device d, as hostname and destination
RECURSIVE RulesOfOthers(_, _)
RulesOfOthers(rules, d) ==
    IF rules = << >> THEN << >>
    ELSE IF TargetsDevice(Head(rules), d) THEN RulesOfOthers(Tail(rules), d)
    ELSE <<[hostname |-> Head(rules).hostname, destination |-> Head(rules).destination]>>
            \o RulesOfOthers(Tail(rules), d)

\* the ports of a list at their first occurrence
RECURSIVE FirstOccurrences(_)
FirstOccurrences(raw) ==
    IF raw = << >> THEN << >>
    ELSE <<Head(raw)>> \o FirstOccurrences(SelectSeq(Tail(raw), LAMBDA port : port # Head(raw)))

\* the last request succeeded and left the rules of the other devices followed by one
\* rule per port of the list, and built the exposure records of those rules
LastExposedExactly(ports) ==
    LET d == forwarding.last.device_id
        stored == forwarding.files.rules
        records == forwarding.last.exposed_ports
    IN /\ [i \in DOMAIN stored |->
              [hostname |-> stored[i].hostname, destination |-> stored[i].destination]]
          = RulesOfOthers(forwarding.last.before.rules, d)
               \o [i \in DOMAIN ports |-> ExposureRule(d, i, ports[i])]
       /\ Len(records) = Len(ports)
       /\ \A i \in DOMAIN ports :
             /\ records[i].hostname = ExposureRule(d, i, ports[i]).hostname
             /\ records[i].url = <<"https://">> \o records[i].hostname

\* C27 as claimed: a successful expose-ports request leaves the other devices' rules
\* followed by one rule per port of the request.
ExposedEveryListedPort ==
    (LastExposed /\ forwarding.last.error = NoError)
        => LastExposedExactly(forwarding.last.expose_ports)

\* C27: a successful expose-ports request leaves the other devices' rules, unchanged
\* and in order, followed by one rule per different port of the request in order of
\* first occurrence, named D.<domain> and <i>_D.<domain> and forwarding to
\* http://[D]:<port>; the exposure records built have these hostnames and
\* https://<hostname>.
ExposedDistinctPorts ==
    (LastExposed /\ forwarding.last.error = NoError)
        => LastExposedExactly(FirstOccurrences(forwarding.last.expose_ports))

ReplacedRulesOfDevice ==
    /\ LastExposed
    /\ forwarding.last.error = NoError
    /\ forwarding.last.expose_ports = <<80, 80, 443, 443>>
    /\ Len(forwarding.last.before.rules) = 2
    /\ Len(forwarding.files.rules) = 3

\* C28: injecting the table that was injected last leaves the shell hook file and
\* /etc/environment as the last injection left them.
InjectionIdempotent ==
    (container.injections >= 2 /\ container.table = container.previous.table)
        => /\ container.hook = container.previous.hook
           /\ container.environment = container.previous.environment

\* C29: whoever reads a persisted file, during a write or after a crash at any point
\* of a write, reads the complete content from before the write or the complete new
\* content.
ReadsCompleteOldOrNew ==
    storage.last.kind # None
        => storage.last.content \in {storage.last.old, storage.last.new}

\* C40: an update that fails, begun with the proxy config and the rules file naming
\* the same hostnames in the same order, leaves them naming the same hostnames in the
\* same order.
FailedUpdateInSync ==
    (/\ forwarding.updates > 0
     /\ forwarding.last.error # NoError
     /\ Hostnames(forwarding.last.before.rules) = Hostnames(forwarding.last.before.config))
        => Hostnames(forwarding.files.rules) = Hostnames(forwarding.files.config)

\* C33: in an expose-ports request the table is pushed into the container before the
\* rules are published. When the push fails and the table is not empty the request
\* fails and proxy config, DNS and rules file are as before; when the push fails and
\* the table is empty the request succeeds, the device's rules are gone, and the other
\* rules are in the rules file, the proxy config and DNS. When a later stage fails the
\* container already holds the table.
PushBeforePublish ==
    LET last == forwarding.last
        d == last.device_id
        others == RulesOfOthers(last.before.rules, d)
    IN /\ (LastExposed /\ last.fault = "sync" /\ last.exposed_ports # << >>)
            => /\ last.error.kind = "RuntimeError"
               /\ forwarding.files = last.before
       /\ (LastExposed /\ last.fault = "sync" /\ last.exposed_ports = << >>)
            => /\ last.error = NoError
               /\ forwarding.files.containers = last.before.containers
               /\ [i \in DOMAIN forwarding.files.rules |->
                      [hostname |-> forwarding.files.rules[i].hostname,
                       destination |-> forwarding.files.rules[i].destination]] = others
               /\ Hostnames(forwarding.files.config) = Hostnames(others)
               /\ \A i \in DOMAIN others : others[i].hostname \in forwarding.files.dns
       /\ (LastExposed /\ last.fault \in {"resolve", "config", "dns", "reload", "persist"})
            => /\ last.error # NoError
               /\ forwarding.files.containers[d] = last.exposed_ports

CleanupDespitePushFailure ==
    /\ LastExposed
    /\ forwarding.last.fault = "sync"
    /\ forwarding.last.exposed_ports = << >>
    /\ Len(forwarding.last.before.rules) = 2
    /\ Len(forwarding.files.rules) = 1

\* C37: no HTTP probe is issued for a task after cancel() has returned for it.
NoProbeAfterCancel ==
    (lastOp.op = "probe" /\ HasTask(state, lastOp.task))
        => ~state.tasks[lastOp.task].cancel_requested

\* C38: a task whose status is pending or running is the task active_task_id names.
ActiveNamesLiveTask ==
    \A t \in DOMAIN state.tasks :
        state.tasks[t].status \in NonTerminal => state.active_task_id = t

\* C39: while the process lives, a task that is pending or running is never left with
\* every runner coroutine ended, the state from which no step of the runtime can take
\* it to a terminal status.
NoTaskLeftWithoutRunner ==
    (restarts = 0 /\ \E t \in DOMAIN state.tasks : state.tasks[t].status \in NonTerminal)
        => \E r \in DOMAIN runners : runners[r].pc # "done"

\* the fields of a task a snapshot shows besides state_seq
Observable(task) ==
    [status |-> task.status, current_step_index |-> task.current_step_index,
     current_step_status |-> task.current_step_status, steps |-> task.steps,
     last_error |-> task.last_error, cancel_requested |-> task.cancel_requested]

\* C32: every step that changes an observable field of a task changes the task's
\* state_seq, so that two snapshots of a task with the same state_seq show the same
\* fields.
SeqBumpedOnEveryChange ==
    [][\A t \in DOMAIN state.tasks \cap DOMAIN state'.tasks :
          Observable(state.tasks[t]) # Observable(state'.tasks[t])
              => state.tasks[t].state_seq # state'.tasks[t].state_seq]_vars

(* ---------------------------------------------- create_proxmox_container *)

ProvisionStep(p) ==
    /\ provision' = p
    /\ UNCHANGED <<state, disk, runners, runner_task, current_process, current_process_task_id,
                   waiters, now, ops, restarts, bootIndex, seen, lastOp, events, probe, conn,
                   router, forwarding, container, storage, node, tunnel>>

\* what a command printed, as the set of the phrases found in stderr + stdout
Outputs == {{}, {"Failed to fetch"}, {"lock-frontend"}}

\* what _run_pct returns of a command: a command that exits 0 prints nothing of interest
Runs == {[returncode |-> 0, out |-> {}]} \cup {[returncode |-> 1, out |-> o] : o \in Outputs}

\* what _portacode_connect_and_read_key does: it returns a result with or without
\* "ok", the key file may read as empty (line 572), and _run_pct_check (line 516) or
\* Popen (line 510) may raise
Connects ==
    {[raises |-> FALSE, ok |-> TRUE, public_key |-> "key"],
     [raises |-> FALSE, ok |-> TRUE, public_key |-> ""],
     [raises |-> FALSE, ok |-> FALSE, public_key |-> ""],
     [raises |-> TRUE, ok |-> FALSE, public_key |-> ""]}

\* a step dictionary, with the defaults of step.get() at lines 620, 621, 646 filled in
SetupStep(name, type, retries, retry_delay_s, retry_on) ==
    [name |-> name, type |-> type, retries |-> retries, retry_delay_s |-> retry_delay_s,
     retry_on |-> retry_on]

\* lines 316-358; the password is never empty (line 303-304 generates one), so the
\* set_password step is always there
_build_bootstrap_steps(ssh_key) ==
    << SetupStep("apt_update", "cmd", 4, 5,
                 {"Temporary failure resolving", "Could not resolve", "Failed to fetch"}),
       SetupStep("install_deps", "cmd", 5, 5,
                 {"lock-frontend", "Unable to acquire the dpkg frontend lock",
                  "Temporary failure resolving", "Could not resolve", "Failed to fetch"}),
       SetupStep("user_exists", "cmd", 0, 3, {}),
       SetupStep("add_sudo", "cmd", 0, 3, {}),
       SetupStep("set_password", "cmd", 0, 3, {}) >>
    \o (IF ssh_key THEN << SetupStep("add_ssh_key", "cmd", 0, 3, {}) >> ELSE << >>)
    \o << SetupStep("pip_upgrade", "cmd", 0, 3, {}),
          SetupStep("install_portacode", "cmd", 0, 3, {}),
          SetupStep("portacode_connect", "portacode_connect", 0, 3, {}) >>

\* the three lifecycle steps of execute, lines 882-928
LifecycleSteps == <<"validate_environment", "create_container", "start_container">>

\* lines 47-91: nothing is sent without an event loop in the handler's context
_emit_progress_event(p, step_index, step_name, status, phase) ==
    IF ~p.loop THEN p
    ELSE [p EXCEPT !.events = Append(@, [event |-> "proxmox_container_progress",
                                         step_name |-> step_name, status |-> status,
                                         phase |-> phase, step_index |-> step_index,
                                         total_steps |-> p.total_steps])]

\* a retry whatever the command printed
will_retry_any_output(step, attempts, out) == attempts < step.retries + 1

\* lines 635-639
will_retry(step, attempts, out) ==
    /\ attempts < step.retries + 1
    /\ step.retry_on # {}
    /\ \E tok \in step.retry_on : tok \in out

\* execute, lines 815-821
CreateProxmoxContainer(ssh_key, loop) ==
    /\ provision.pc = "idle"
    /\ LET bootstrap_steps == _build_bootstrap_steps(ssh_key)
       IN ProvisionStep([pc |-> "lifecycle", loop |-> loop, steps |-> bootstrap_steps,
                         total_steps |-> 3 + Len(bootstrap_steps) + 2,
                         current_step_index |-> 1, offset |-> 0, attempts |-> 0, slept |-> 0,
                         events |-> << >>, results |-> << >>, delays |-> << >>])

\* _run_lifecycle_step, lines 830-841
LifecycleBegin ==
    /\ provision.pc = "lifecycle"
    /\ LET i == provision.current_step_index
       IN ProvisionStep([_emit_progress_event(provision, i, LifecycleSteps[i], "in_progress",
                                              "lifecycle") EXCEPT !.pc = "action"])

\* _run_lifecycle_step, lines 842-870, and the call that follows it in execute
LifecycleAction(ok) ==
    /\ provision.pc = "action"
    /\ LET i == provision.current_step_index
       IN IF ~ok
          THEN ProvisionStep([_emit_progress_event(provision, i, LifecycleSteps[i], "failed",
                                                   "lifecycle") EXCEPT !.pc = "failed"])
          ELSE ProvisionStep([_emit_progress_event(provision, i, LifecycleSteps[i], "completed",
                                                   "lifecycle")
                              EXCEPT !.current_step_index = i + 1,
                                     !.pc = IF i = Len(LifecycleSteps) THEN "bootstrap"
                                            ELSE "lifecycle"])

\* _run_setup_steps, lines 602-607 and 619-621
SetupStepBegin ==
    /\ provision.pc = "bootstrap"
    /\ provision.offset < Len(provision.steps)
    /\ LET step == provision.steps[provision.offset + 1]
           step_index == provision.current_step_index + provision.offset
       IN ProvisionStep([_emit_progress_event(provision, step_index, step.name, "in_progress",
                                              "bootstrap")
                         EXCEPT !.attempts = 0, !.slept = 0,
                                !.pc = IF step.type = "portacode_connect" THEN "connect"
                                       ELSE "attempt"])

\* _run_setup_steps, lines 607-617
PortacodeConnect(res) ==
    /\ provision.pc = "connect"
    /\ res \in Connects
    /\ LET step == provision.steps[provision.offset + 1]
           step_index == provision.current_step_index + provision.offset
           recorded == [provision EXCEPT !.results =
                           Append(@, [name |-> step.name, attempt |-> 1,
                                      returncode |-> IF res.ok THEN 0 ELSE 1, out |-> {},
                                      public_key |-> res.public_key]),
                                         !.delays = Append(@, 0)]
       IN IF res.raises THEN ProvisionStep([provision EXCEPT !.pc = "failed"])
          ELSE IF ~res.ok
          THEN ProvisionStep([_emit_progress_event(recorded, step_index, step.name, "failed",
                                                   "bootstrap") EXCEPT !.pc = "failed"])
          ELSE ProvisionStep([_emit_progress_event(recorded, step_index, step.name, "completed",
                                                   "bootstrap")
                              EXCEPT !.offset = @ + 1, !.pc = "bootstrap"])

\* _run_setup_steps, lines 623-649: one attempt of a command step
RunPct(res) ==
    /\ provision.pc = "attempt"
    /\ res \in Runs
    /\ LET step == provision.steps[provision.offset + 1]
           step_index == provision.current_step_index + provision.offset
           attempts == provision.attempts + 1
           recorded == [provision EXCEPT !.attempts = attempts, !.slept = 0,
                                         !.results =
                           Append(@, [name |-> step.name, attempt |-> attempts,
                                      returncode |-> res.returncode, out |-> res.out,
                                      public_key |-> ""]),
                                         !.delays = Append(@, provision.slept)]
       IN IF res.returncode = 0
          THEN ProvisionStep([_emit_progress_event(recorded, step_index, step.name, "completed",
                                                   "bootstrap")
                              EXCEPT !.offset = @ + 1, !.pc = "bootstrap"])
          ELSE IF will_retry(step, attempts, res.out)
          THEN ProvisionStep([_emit_progress_event(recorded, step_index, step.name, "retrying",
                                                   "bootstrap") EXCEPT !.pc = "sleeping"])
          ELSE ProvisionStep([_emit_progress_event(recorded, step_index, step.name, "failed",
                                                   "bootstrap") EXCEPT !.pc = "failed"])

\* _run_setup_steps, lines 645-647
RetrySleep ==
    /\ provision.pc = "sleeping"
    /\ ProvisionStep([provision EXCEPT !.pc = "attempt",
                         !.slept = provision.steps[provision.offset + 1].retry_delay_s])

\* _run_setup_steps line 650, _bootstrap_portacode lines 672-678, execute lines 979-997
BootstrapReturn ==
    /\ provision.pc = "bootstrap"
    /\ provision.offset = Len(provision.steps)
    /\ LET key_steps == {i \in DOMAIN provision.results :
                            provision.results[i].name = "portacode_connect"}
           public_key == IF key_steps = {} THEN ""
                         ELSE provision.results[CHOOSE i \in key_steps :
                                                    \A j \in key_steps : i <= j].public_key
       IN IF public_key = "" THEN ProvisionStep([provision EXCEPT !.pc = "failed"])
          ELSE ProvisionStep([provision EXCEPT !.pc = "done",
                                 !.current_step_index = @ + Len(provision.steps)])

NextProvision ==
    \/ \E ssh_key \in BOOLEAN, loop \in BOOLEAN : CreateProxmoxContainer(ssh_key, loop)
    \/ LifecycleBegin
    \/ \E ok \in BOOLEAN : LifecycleAction(ok)
    \/ SetupStepBegin
    \/ \E res \in Connects : PortacodeConnect(res)
    \/ \E res \in Runs : RunPct(res)
    \/ RetrySleep
    \/ BootstrapReturn

SpecProvision == Init /\ [][NextProvision]_vars

\* the place of a step in the list of bootstrap steps
StepAt(name) == CHOOSE k \in DOMAIN provision.steps : provision.steps[k].name = name

\* C34: the attempts recorded follow the list of steps: the first is the first
\* attempt of the first step, none has a number above retries + 1, an attempt is
\* followed either by the next attempt of the same step, and then it failed with
\* attempts left and one of the step's retryable phrases in its output and the
\* step's retry delay was slept, or by the first attempt of the next step, and
\* then it succeeded; a failed attempt that is not retried is the last one and
\* the request has failed, and a request that is done has a successful attempt
\* of every step
StepsInOrderRetriedAsListed ==
    LET R == provision.results
        S == provision.steps
    IN /\ \A i \in DOMAIN R : R[i].attempt <= S[StepAt(R[i].name)].retries + 1
       /\ R # << >> => StepAt(R[1].name) = 1 /\ R[1].attempt = 1
       /\ \A i \in 1..(Len(R) - 1) :
             LET step == S[StepAt(R[i].name)]
             IN \/ /\ R[i + 1].name = R[i].name
                   /\ R[i + 1].attempt = R[i].attempt + 1
                   /\ R[i].returncode # 0
                   /\ R[i].attempt < step.retries + 1
                   /\ R[i].out \cap step.retry_on # {}
                   /\ provision.delays[i + 1] = step.retry_delay_s
                \/ /\ R[i].returncode = 0
                   /\ StepAt(R[i + 1].name) = StepAt(R[i].name) + 1
                   /\ R[i + 1].attempt = 1
                   /\ provision.delays[i + 1] = 0
       /\ (R # << >> /\ R[Len(R)].returncode # 0) =>
             LET step == S[StepAt(R[Len(R)].name)]
             IN \/ provision.pc = "failed"
                \/ /\ provision.pc \in {"sleeping", "attempt"}
                   /\ R[Len(R)].attempt < step.retries + 1
                   /\ R[Len(R)].out \cap step.retry_on # {}
       /\ provision.pc = "done" =>
             \A k \in DOMAIN S : \E i \in DOMAIN R : R[i].name = S[k].name /\ R[i].returncode = 0

\* a step was retried, and a later step failed with steps left in the list
RetriedThenStopped ==
    LET R == provision.results
    IN /\ provision.pc = "failed"
       /\ R # << >>
       /\ R[Len(R)].returncode # 0
       /\ R[Len(R)].attempt = 1
       /\ StepAt(R[Len(R)].name) \in 2..(Len(provision.steps) - 1)
       /\ \E i \in DOMAIN R : R[i].attempt >= 2

\* C35: of each step the events are one in_progress, then retrying events, then,
\* once the request is over, exactly one completed or failed; step_index never
\* decreases and lies in 1..total_steps; no event of a later step follows a failed
ProgressOfEveryStepClosed ==
    LET E == provision.events
        Closing == {"completed", "failed"}
    IN /\ \A i \in DOMAIN E : E[i].step_index \in 1..E[i].total_steps
       /\ \A i \in 1..(Len(E) - 1) : E[i].step_index <= E[i + 1].step_index
       /\ \A i \in DOMAIN E : E[i].status = "failed" => i = Len(E)
       /\ \A i \in DOMAIN E :
             /\ E[i].status = "in_progress"
                   <=> \A j \in 1..(i - 1) : E[j].step_index # E[i].step_index
             /\ E[i].status \in Closing
                   => \A j \in (i + 1)..Len(E) : E[j].step_index # E[i].step_index
             /\ provision.pc \in {"done", "failed"}
                   => \E j \in i..Len(E) : /\ E[j].step_index = E[i].step_index
                                           /\ E[j].status \in Closing

(* ------------------------------------------------------- _start_container *)

NodeStep(n) ==
    /\ node' = n
    /\ UNCHANGED <<state, disk, runners, runner_task, current_process, current_process_task_id,
                   waiters, now, ops, restarts, bootIndex, seen, lastOp, events, probe, conn,
                   router, forwarding, container, storage, provision, tunnel>>

\* the containers one run creates
MaxContainers == 3

\* node_status["memory"]["total"] in MiB and node_status["cpuinfo"]["cores"]
NodeMemory == 4

NodeCores == 3

\* ram_mib and cpus of a request, as _build_container_payload validates them
RamSizes == {2, 3}

CpuCounts == {1, 2}

RECURSIVE Sum(_, _)
\* sum(int(cfg.get(field, 0)) for _, cfg in running)
Sum(running, field) ==
    IF running = << >> THEN 0
    ELSE (IF field = "memory" THEN running[1].memory ELSE running[1].cores)
         + Sum(Tail(running), field)

RECURSIVE _list_running_managed(_)
\* lines 387-396: the configs of the running containers that carry the marker
_list_running_managed(cts) ==
    IF cts = << >> THEN << >>
    ELSE (IF cts[1].status = "running" /\ cts[1].managed THEN << cts[1] >> ELSE << >>)
         \o _list_running_managed(Tail(cts))

\* a container someone else runs on the node, without the marker in its description
ForeignContainer(memory, cores) ==
    /\ Len(node.cts) < MaxContainers
    /\ NodeStep([node EXCEPT !.cts = Append(@, [status |-> "running", memory |-> memory,
                                                cores |-> cores, managed |-> FALSE])])

\* execute, lines 890-917: _instantiate_container creates the container stopped, with
\* the marker as description (lines 471, 798)
InstantiateContainer(w, ram_mib, cpus) ==
    /\ node.workers[w].pc = "idle"
    /\ Len(node.cts) < MaxContainers
    /\ NodeStep([node EXCEPT !.cts = Append(@, [status |-> "stopped", memory |-> ram_mib,
                                                cores |-> cpus, managed |-> TRUE]),
                             !.workers[w] = [pc |-> "start", vmid |-> Len(node.cts) + 1]])

\* _start_container, lines 400-421
StartCheck(w) ==
    /\ node.workers[w].pc = "start"
    /\ LET vmid == node.workers[w].vmid
           running == _list_running_managed(node.cts)
           used_mem_mb == Sum(running, "memory")
           used_cores == Sum(running, "cores")
           target_cfg == node.cts[vmid]
       IN IF node.cts[vmid].status = "running"
          THEN NodeStep([node EXCEPT !.workers[w] = IdleWorker])
          ELSE IF NodeMemory # 0 /\ used_mem_mb + target_cfg.memory > NodeMemory
          THEN NodeStep([node EXCEPT !.workers[w] = IdleWorker])
          ELSE IF NodeCores # 0 /\ used_cores + target_cfg.cores > NodeCores
          THEN NodeStep([node EXCEPT !.workers[w] = IdleWorker])
          ELSE NodeStep([node EXCEPT !.workers[w].pc = "post"])

\* _start_container, line 423: the node starts the container
StartPost(w) ==
    /\ node.workers[w].pc = "post"
    /\ NodeStep([node EXCEPT !.cts[node.workers[w].vmid].status = "running",
                             !.workers[w].pc = "wait"])

\* _start_container, line 424, and the rest of the request
WaitForTask(w) ==
    /\ node.workers[w].pc = "wait"
    /\ NodeStep([node EXCEPT !.workers[w] = IdleWorker])

NextNode ==
    \/ \E memory \in RamSizes, cores \in CpuCounts : ForeignContainer(memory, cores)
    \/ \E w \in Workers, ram_mib \in RamSizes, cpus \in CpuCounts :
          InstantiateContainer(w, ram_mib, cpus)
    \/ \E w \in Workers : StartCheck(w)
    \/ \E w \in Workers : StartPost(w)
    \/ \E w \in Workers : WaitForTask(w)

SpecNode == Init /\ [][NextNode]_vars

\* C36: the RAM and the cores of the running managed containers never add up to
\* more than the node has
RunningWithinCapacity ==
    /\ Sum(_list_running_managed(node.cts), "memory") <= NodeMemory
    /\ Sum(_list_running_managed(node.cts), "cores") <= NodeCores

(* ------------------------------------------------- setup_cloudflare_tunnel *)

TunnelStep(t) ==
    /\ tunnel' = t
    /\ UNCHANGED <<state, disk, runners, runner_task, current_process, current_process_task_id,
                   waiters, now, ops, restarts, bootIndex, seen, lastOp, events, probe, conn,
                   router, forwarding, container, storage, provision, node>>

\* the setup requests of one run
MaxSetups == 3

\* what `cloudflared tunnel token` gives: a token, a non-zero exit, or nothing on stdout
TokenResults == {"ok", "error", "empty"}

\* the files a host can lose between two setups
TunnelFiles == {"credentials", "user_creds", "token", "config"}

\* service_install.py, ensure_tunnel lines 90-103: `cloudflared tunnel create` runs
\* only for a tunnel the account does not have, and may leave a credentials JSON
\* in ~/.cloudflared
ensure_tunnel(t, produced) ==
    IF t.tunnel_exists THEN t
    ELSE [t EXCEPT !.tunnel_exists = TRUE, !.user_creds = @ \/ produced]

\* service_install.py, write_config and _write_config lines 106-130, with
\* ensure_service_installed line 110
write_config_and_install(t) ==
    [t EXCEPT !.config = IF t.credentials THEN "with credentials-file"
                         ELSE "without credentials-file",
              !.service = TRUE]

\* service_install.py, download_tunnel_credentials lines 288-325, for a
\* credentials_path that does not exist
download_tunnel_credentials(t, token_result) ==
    IF t.user_creds
    THEN [t EXCEPT !.credentials = TRUE, !.last = [source |-> "json", error |-> None]]
    ELSE IF token_result = "ok"
    THEN [t EXCEPT !.token = "0600", !.last = [source |-> "token", error |-> None]]
    ELSE [t EXCEPT !.last = [source |-> None, error |-> "token_fetch"]]

\* cloudflare_tunnel.py, _ensure_tunnel_with_credentials lines 89-110
_ensure_tunnel_with_credentials(t, produced, token_result) ==
    LET ensured == ensure_tunnel(t, produced)
        downloaded == download_tunnel_credentials(ensured, token_result)
    IN IF ensured.credentials
       THEN [write_config_and_install(ensured)
             EXCEPT !.last = [source |-> "existing", error |-> None]]
       ELSE IF downloaded.last.error # None THEN downloaded
       ELSE IF ~downloaded.credentials
       THEN [downloaded EXCEPT !.last.error = "credentials_missing"]
       ELSE write_config_and_install(downloaded)

\* cloudflare_tunnel.py, CloudflareTunnelSetupHandler.execute lines 118-127, with
\* _reset_previous_installation lines 70-80
SetupCloudflareTunnel ==
    /\ tunnel.pc = "idle"
    /\ tunnel.setups < MaxSetups
    /\ TunnelStep([tunnel EXCEPT !.pc = "login", !.cert = FALSE, !.state = None,
                                 !.setups = @ + 1,
                                 !.last = [source |-> None, error |-> None]])

\* execute, lines 129-147: the login leaves cert.pem, or the request ends
RunLogin(login) ==
    /\ tunnel.pc = "login"
    /\ IF login THEN TunnelStep([tunnel EXCEPT !.pc = "ensure", !.cert = TRUE])
       ELSE TunnelStep([tunnel EXCEPT !.pc = "idle", !.last.error = "login"])

\* execute, lines 149-155
EnsureTunnelWithCredentials(produced, token_result) ==
    /\ tunnel.pc = "ensure"
    /\ LET ensured == _ensure_tunnel_with_credentials(tunnel, produced, token_result)
       IN TunnelStep([ensured EXCEPT !.pc = IF ensured.last.error # None THEN "idle"
                                            ELSE "record"])

\* execute, lines 157-181
UpdateState ==
    /\ tunnel.pc = "record"
    /\ TunnelStep([tunnel EXCEPT !.pc = "idle", !.state = "configured"])

\* a file of the tunnel is gone: the host was reinstalled, or someone cleaned up
LoseFile(f) ==
    /\ f \in TunnelFiles
    /\ TunnelStep([tunnel EXCEPT !.credentials = @ /\ f # "credentials",
                                 !.user_creds = @ /\ f # "user_creds",
                                 !.token = IF f = "token" THEN None ELSE @,
                                 !.config = IF f = "config" THEN None ELSE @])

NextTunnel ==
    \/ SetupCloudflareTunnel
    \/ \E login \in BOOLEAN : RunLogin(login)
    \/ \E produced \in BOOLEAN, token_result \in TokenResults :
          EnsureTunnelWithCredentials(produced, token_result)
    \/ UpdateState
    \/ \E f \in TunnelFiles : LoseFile(f)

SpecTunnel == Init /\ [][NextTunnel]_vars

\* C31: a setup that took the tunnel token, stored with mode 0600, completes: the
\* config file is written, the service installed and the state recorded
TokenSetupCompletes ==
    (tunnel.pc = "idle" /\ tunnel.last.source = "token") =>
        /\ tunnel.last.error = None
        /\ tunnel.config # None
        /\ tunnel.service
        /\ tunnel.state = "configured"

====
